---- MODULE Spec2Model ----
(***************************************************************************)
(* Change detection, weekly contribution ledger and pinned-message         *)
(* reconciliation of the memento_mori bot (club and alliance trackers).    *)
(*                                                                         *)
(* Dates are day numbers counted from a Monday (day 0), so that            *)
(* date.weekday() is  d % 7  and a week_start string 'YYYY-MM-DD' is the   *)
(* day number of its Monday.  An SQLite table is the set of its rows (the   *)
(* columns the protocol reads); the Telegram chat is the set of message    *)
(* ids that still exist in it.                                             *)
(***************************************************************************)
EXTENDS Integers, Sequences, FiniteSets, TLC

(* ---------------------------- bounds ----------------------------------- *)
MaxDay == 7
MaxContribution == 2
MaxItems == 1
MaxRecords == 2
MaxMessages == 2
MaxFailures == 6
MaxCards == 2

(* ------------------------ program constants ---------------------------- *)
REQUIRED_TG_GROUP_ID == 100
WEEKLY_CHECK_EVERY == 10
max_consecutive_failures == 5
MAX_RETRIES == 3
RETRY_DELAY == 5

(* --------------------------- state ------------------------------------- *)
VARIABLES
    today,            \* now_msk().date()
    ledger,           \* table alliance_club_contributions: the key and the
                      \* two contribution columns of every row
    nicks,            \* table alliance_club_contributions: column nick
    weekly,           \* table weekly_contributions
    call,             \* arguments of the last direct ledger call
    pinnedA,          \* table pinned_alliance_weekly_message
    pinnedW,          \* table pinned_weekly_message
    live,             \* message ids that exist in the Telegram chat
    nextId,           \* message_id Telegram gives to the next sent message
    rc,               \* Telegram calls made by the last reconcile call
    streak,           \* per metric: week and messages sent by the calls made
                      \* for it since the last change of week or deletion
    running,          \* alliance_monitor_loop is in its while loop
    last_club_hash,   \* local of alliance_monitor_loop
    last_week_start,  \* local of alliance_monitor_loop
    is_initialized,   \* local of alliance_monitor_loop
    cyc,              \* what the last step of a monitoring loop did
    parsing,                 \* parse_loop is in its while loop
    last_weekly_hash,        \* local of parse_loop
    weekly_last_week_start,  \* local last_week_start of parse_loop
    weekly_check_counter,    \* local of parse_loop
    consecutive_failures,    \* local of parse_loop
    failed_fetches,          \* consecutive iterations of parse_loop whose page
                             \* fetch failed, counted up to the threshold
    task,                    \* the loop a behaviour of SpecLoops follows
    fetch,                   \* the last call of AllianceParser.fetch_page
    at,                      \* where an iteration of alliance_monitor_loop is suspended
    card_db,                 \* the cards table: the current card and the archived ones
    card_log,                \* the card part of the last iteration of parse_loop
    current_slug,            \* local of alliance_monitor_loop
    manga_db,                \* the alliance manga table: the current title and the earlier ones
    manga_log,               \* the manga part of the last step of alliance_monitor_loop
    answer,                  \* the last query of a ledger and the list it returned
    hashed,                  \* the last two snapshots fingerprinted and their fingerprints
    window,                  \* the last two dates given to a week function and the weeks returned
    sched,                   \* the thread of the event loop and where each loop is suspended
    race,                    \* an admin refresh and a reconcile of a loop, each at one of its awaits
    txn,                     \* the last ledger call that failed before its commit
    rowids,                  \* column id of the rows of the two ledgers, followed where the ledgers are queried
    pm,                      \* the ProxyManager of main, its last call, what the call returned and the proxies rotate discarded
    book                     \* the bookings table, the two booking flows and the handler the application is running

ledgerVars == <<ledger, nicks, weekly, call>>
chatVars == <<pinnedA, pinnedW, live, nextId, rc, streak>>
allianceVars == <<running, last_club_hash, last_week_start, is_initialized>>
parseVars == <<parsing, last_weekly_hash, weekly_last_week_start,
               weekly_check_counter, consecutive_failures, failed_fetches>>
cardVars == <<card_db, card_log>>
mangaVars == <<current_slug, manga_db, manga_log>>
otherVars == <<fetch, at, cardVars, mangaVars, answer, hashed, window, sched, race, txn, rowids, pm, book>>
loopVars == <<allianceVars, cyc, parseVars, task, otherVars>>
vars == <<today, ledger, nicks, weekly, call, pinnedA, pinnedW, live, nextId, rc,
          streak, running, last_club_hash, last_week_start, is_initialized, cyc,
          parsing, last_weekly_hash, weekly_last_week_start,
          weekly_check_counter, consecutive_failures, failed_fetches, task,
          fetch,
          at,
          card_db,
          card_log,
          current_slug,
          manga_db,
          manga_log,
          answer,
          hashed,
          window,
          sched,
          race,
          txn,
          rowids,
          pm,
          book>>

(* ------------------------- week clock ---------------------------------- *)
weekday(d) == d % 7

get_alliance_week_start(d) == d - weekday(d)

get_alliance_week_end(week_start) == week_start + 6

get_week_start(d) == d - weekday(d)

get_week_end(week_start) == week_start + 6

(* The clock starts on the Sunday that ends the week of day 0, so that the *)
(* change of week is within reach whatever MaxDay is.                      *)
FirstDay == get_alliance_week_end(0)

Days == FirstDay..MaxDay

WeekStarts == {get_alliance_week_start(d) : d \in Days}

(* ------------------------ snapshot parser ------------------------------ *)
(* A page item is one .club-boost__top-item: the user id in the href of    *)
(* its name link (NoUserLink when the href has no /users/<digits>), the    *)
(* text of the link (the nick) and its contribution.  The server lists a   *)
(* user once.                                                              *)
NoUserLink == -1
UserIds == {1}
Nicks == {"A", "B"}
Contributions == 1..MaxContribution
Items == [uid : UserIds \cup {NoUserLink}, nick : Nicks,
          contribution : Contributions]

RECURSIVE SeqsUpTo(_, _)
SeqsUpTo(S, n) ==
    IF n = 0 THEN {<<>>}
    ELSE LET shorter == SeqsUpTo(S, n - 1)
         IN shorter \cup {Append(s, x) : s \in {t \in shorter : Len(t) = n - 1}, x \in S}

PagesUpTo(n) ==
    {p \in SeqsUpTo(Items, n) :
        \A i, j \in DOMAIN p :
            (i # j /\ p[i].uid # NoUserLink) => p[i].uid # p[j].uid}

Pages == PagesUpTo(MaxItems)

parse_alliance_club_contributions(page) ==
    [i \in DOMAIN page |->
        [mangabuff_id |-> IF page[i].uid = NoUserLink THEN 0 ELSE page[i].uid,
         nick |-> page[i].nick,
         contribution |-> page[i].contribution]]

parse_weekly_contributions(page) ==
    [i \in DOMAIN page |->
        [mangabuff_id |-> IF page[i].uid = NoUserLink THEN 0 ELSE page[i].uid,
         nick |-> page[i].nick,
         contribution |-> page[i].contribution]]

(* The record lists of the direct ledger calls.  The nick is not among the *)
(* columns of the rows modelled here, so these lists use a single nick.    *)
RecordLists ==
    {parse_alliance_club_contributions(p) :
        p \in {q \in PagesUpTo(MaxRecords) : \A i \in DOMAIN q : q[i].nick = "A"}}

(* ------------------------- change hasher ------------------------------- *)
(* The text that is hashed: "id:contribution" of every record, joined by   *)
(* commas.  hashlib.md5 is taken as free of collisions on these texts: the *)
(* digest is the text under a tag, and None is no digest.                  *)
FormatRecord_NoColon(c) == ToString(c.mangabuff_id) \o ToString(c.contribution)

FormatRecord_WithNick(c) ==
    ToString(c.mangabuff_id) \o ":" \o c.nick \o ":" \o ToString(c.contribution)

FormatRecord(c) == ToString(c.mangabuff_id) \o ":" \o ToString(c.contribution)

RECURSIVE JoinComma(_)
JoinComma(texts) ==
    IF texts = <<>> THEN ""
    ELSE IF Len(texts) = 1 THEN Head(texts)
    ELSE Head(texts) \o "," \o JoinComma(Tail(texts))

md5(data) == <<"md5", data>>

compute_alliance_hash(contributions) ==
    md5(JoinComma([i \in DOMAIN contributions |-> FormatRecord(contributions[i])]))

compute_stats_hash(contributions) ==
    md5(JoinComma([i \in DOMAIN contributions |-> FormatRecord(contributions[i])]))

NoHash == <<"None", "">>

(* ----------------------- contribution ledger --------------------------- *)
HasRow(tbl, week_start, id) ==
    \E r \in tbl : r.week_start = week_start /\ r.mangabuff_id = id

InsertNewWeek_KeepsBaseline(tbl, week_start, c) ==
    IF HasRow(tbl, week_start, c.mangabuff_id)
    THEN {IF r.week_start = week_start /\ r.mangabuff_id = c.mangabuff_id
          THEN [r EXCEPT !.contribution_current = c.contribution]
          ELSE r : r \in tbl}
    ELSE tbl \cup {[week_start |-> week_start,
                    mangabuff_id |-> c.mangabuff_id,
                    contribution_baseline |-> c.contribution,
                    contribution_current |-> c.contribution]}

InsertNewWeek_AnyWeek(tbl, week_start, c) ==
    IF \E r \in tbl : r.mangabuff_id = c.mangabuff_id
    THEN {IF r.mangabuff_id = c.mangabuff_id
          THEN [r EXCEPT !.contribution_baseline = c.contribution,
                         !.contribution_current = c.contribution]
          ELSE r : r \in tbl}
    ELSE tbl \cup {[week_start |-> week_start,
                    mangabuff_id |-> c.mangabuff_id,
                    contribution_baseline |-> c.contribution,
                    contribution_current |-> c.contribution]}

InsertNewWeek_DropsAbsent(tbl, week_start, c) ==
    {r \in tbl : r.week_start # week_start}
        \cup {[week_start |-> week_start,
               mangabuff_id |-> c.mangabuff_id,
               contribution_baseline |-> c.contribution,
               contribution_current |-> c.contribution]}

InsertNewWeek(tbl, week_start, c) ==
    IF HasRow(tbl, week_start, c.mangabuff_id)
    THEN {IF r.week_start = week_start /\ r.mangabuff_id = c.mangabuff_id
          THEN [r EXCEPT !.contribution_baseline = c.contribution,
                         !.contribution_current = c.contribution]
          ELSE r : r \in tbl}
    ELSE tbl \cup {[week_start |-> week_start,
                    mangabuff_id |-> c.mangabuff_id,
                    contribution_baseline |-> c.contribution,
                    contribution_current |-> c.contribution]}

InsertOrUpdateCurrent_SetsBaseline(tbl, week_start, c) ==
    IF HasRow(tbl, week_start, c.mangabuff_id)
    THEN {IF r.week_start = week_start /\ r.mangabuff_id = c.mangabuff_id
          THEN [r EXCEPT !.contribution_baseline = c.contribution,
                         !.contribution_current = c.contribution]
          ELSE r : r \in tbl}
    ELSE tbl \cup {[week_start |-> week_start,
                    mangabuff_id |-> c.mangabuff_id,
                    contribution_baseline |-> c.contribution,
                    contribution_current |-> c.contribution]}

InsertOrUpdateCurrent(tbl, week_start, c) ==
    IF HasRow(tbl, week_start, c.mangabuff_id)
    THEN {IF r.week_start = week_start /\ r.mangabuff_id = c.mangabuff_id
          THEN [r EXCEPT !.contribution_current = c.contribution]
          ELSE r : r \in tbl}
    ELSE tbl \cup {[week_start |-> week_start,
                    mangabuff_id |-> c.mangabuff_id,
                    contribution_baseline |-> c.contribution,
                    contribution_current |-> c.contribution]}

(* Both statements of upsert_alliance_contributions set nick = excluded.nick *)
(* on a conflict and insert the nick of the record otherwise.              *)
SetNick(col, week_start, c) ==
    {n \in col : ~(n.week_start = week_start /\ n.mangabuff_id = c.mangabuff_id)}
    \cup {[week_start |-> week_start, mangabuff_id |-> c.mangabuff_id,
           nick |-> c.nick]}

RECURSIVE upsert_alliance_nicks(_, _, _)
upsert_alliance_nicks(col, week_start, contributions) ==
    IF contributions = <<>> THEN col
    ELSE upsert_alliance_nicks(SetNick(col, week_start, Head(contributions)),
                               week_start, Tail(contributions))

RECURSIVE upsert_alliance_contributions(_, _, _, _)
upsert_alliance_contributions(tbl, week_start, contributions, is_new_week) ==
    IF contributions = <<>> THEN tbl
    ELSE upsert_alliance_contributions(
            IF is_new_week
            THEN InsertNewWeek(tbl, week_start, Head(contributions))
            ELSE InsertOrUpdateCurrent(tbl, week_start, Head(contributions)),
            week_start, Tail(contributions), is_new_week)

InsertWeekly(tbl, week_start, c) ==
    IF HasRow(tbl, week_start, c.mangabuff_id)
    THEN {IF r.week_start = week_start /\ r.mangabuff_id = c.mangabuff_id
          THEN [r EXCEPT !.contribution = c.contribution]
          ELSE r : r \in tbl}
    ELSE tbl \cup {[week_start |-> week_start,
                      mangabuff_id |-> c.mangabuff_id,
                      contribution |-> c.contribution]}

RECURSIVE save_weekly_contributions(_, _, _)
save_weekly_contributions(tbl, week_start, contributions) ==
    IF contributions = <<>> THEN tbl
    ELSE save_weekly_contributions(
            InsertWeekly(tbl, week_start, Head(contributions)),
            week_start, Tail(contributions))


RowsOfWeek(tbl, week_start) == {r \in tbl : r.week_start = week_start}

Delta(r) == r.contribution_current - r.contribution_baseline

(* -------------------------- Telegram chat ------------------------------ *)
(* What bot.edit_message_text can answer for a message id: "ok", or the    *)
(* text of the TelegramError it raises.  A message that no longer exists   *)
(* cannot be edited, an existing one is never reported as missing; any     *)
(* call can fail for another reason (network, flood control, rights).      *)
OtherError == "timed out"

EditOutcomes(chat, message_id) ==
    IF message_id \in chat
    THEN {"ok", "message is not modified", OtherError}
    ELSE {"message to edit not found", "message_id_invalid", OtherError}

(* Message ids are capped: once MaxMessages messages exist, send_message   *)
(* only fails.                                                             *)
SendOutcomes(newId) == IF newId <= MaxMessages THEN {"ok", OtherError} ELSE {OtherError}

PinOutcomes == {"ok", OtherError}

(* ------------------------ pinned message record ------------------------ *)
NoRow == [chat_id |-> -1, message_id |-> -1, week_start |-> -1]

get_pinned_alliance_message(tbl, chat_id) ==
    IF \E r \in tbl : r.chat_id = chat_id
    THEN CHOOSE r \in tbl : r.chat_id = chat_id
    ELSE NoRow

save_pinned_alliance_message_Lost(tbl, chat_id, message_id, week_start) == tbl

save_pinned_alliance_message_Dup(tbl, chat_id, message_id, week_start) ==
    tbl \cup {[chat_id |-> chat_id, message_id |-> message_id, week_start |-> week_start]}

save_pinned_alliance_message(tbl, chat_id, message_id, week_start) ==
    {r \in tbl : r.chat_id # chat_id}
        \cup {[chat_id |-> chat_id, message_id |-> message_id, week_start |-> week_start]}

clear_pinned_alliance_message(tbl, chat_id) == {r \in tbl : r.chat_id # chat_id}

get_pinned_message_info(tbl, chat_id) ==
    IF \E r \in tbl : r.chat_id = chat_id
    THEN CHOOSE r \in tbl : r.chat_id = chat_id
    ELSE NoRow

save_pinned_message_info_KeepsWeek(tbl, chat_id, message_id, week_start) ==
    IF \E r \in tbl : r.chat_id = chat_id
    THEN {IF r.chat_id = chat_id THEN [r EXCEPT !.message_id = message_id] ELSE r :
            r \in tbl}
    ELSE {[chat_id |-> chat_id, message_id |-> message_id, week_start |-> week_start]}

save_pinned_message_info(tbl, chat_id, message_id, week_start) ==
    {r \in tbl : r.chat_id # chat_id}
        \cup {[chat_id |-> chat_id, message_id |-> message_id, week_start |-> week_start]}

clear_pinned_message_info(tbl, chat_id) == {r \in tbl : r.chat_id # chat_id}

(* --------------------- pinned message reconciler ----------------------- *)
(* The result of a call: the table afterwards and the Telegram calls made: *)
(* stored is the row read at the start, edited the message ids passed to   *)
(* edit_message_text, sent the ids of the messages send_message created,   *)
(* and edit, send, pin the answers ("none" when the call was not made).    *)
AllianceRecordForWeek_NoCheck(stored, week_start) == stored

AllianceRecordForWeek(stored, week_start) ==
    IF stored # NoRow /\ stored.week_start # week_start THEN NoRow ELSE stored

AllianceOnEditError_NoRecreate(err) == "return"

AllianceOnEditError_ResendAlways(err) ==
    IF err = "message is not modified" THEN "return" ELSE "send new"

AllianceOnEditError(err) ==
    IF err = "message to edit not found" \/ err = "message_id_invalid"
    THEN "send new"
    ELSE IF err = "message is not modified"
    THEN "return"
    ELSE "return"

(* A TelegramError of pin_chat_message is caught where it is raised and    *)
(* logged; the call goes on to save the record.                            *)
AllianceOnPinError_Raises(err) == "raise"

AllianceOnPinError(err) == "continue"

send_or_update_alliance_pinned(tbl, newId, week_start, editOut, sendOut, pinOut) ==
    LET chat_id == REQUIRED_TG_GROUP_ID
        stored == get_pinned_alliance_message(tbl, chat_id)
        pinned_info == AllianceRecordForWeek(stored, week_start)
        SendNew(edited, editResult) ==
            IF sendOut = "ok"
            THEN IF pinOut = "ok" \/ AllianceOnPinError(pinOut) = "continue"
                 THEN [tbl |-> save_pinned_alliance_message(
                                   tbl, chat_id, newId, week_start),
                       stored |-> stored, edited |-> edited, edit |-> editResult,
                       sent |-> <<newId>>, send |-> sendOut, pin |-> pinOut]
                 ELSE [tbl |-> tbl,
                       stored |-> stored, edited |-> edited, edit |-> editResult,
                       sent |-> <<newId>>, send |-> sendOut, pin |-> pinOut]
            ELSE [tbl |-> tbl,
                  stored |-> stored, edited |-> edited, edit |-> editResult,
                  sent |-> <<>>, send |-> sendOut, pin |-> "none"]
    IN IF pinned_info # NoRow
       THEN IF editOut = "ok"
            THEN [tbl |-> save_pinned_alliance_message(
                              tbl, chat_id, pinned_info.message_id, week_start),
                  stored |-> stored, edited |-> <<pinned_info.message_id>>,
                  edit |-> editOut, sent |-> <<>>, send |-> "none", pin |-> "none"]
            ELSE IF AllianceOnEditError(editOut) = "send new"
            THEN SendNew(<<pinned_info.message_id>>, editOut)
            ELSE [tbl |-> tbl,
                  stored |-> stored, edited |-> <<pinned_info.message_id>>,
                  edit |-> editOut, sent |-> <<>>, send |-> "none", pin |-> "none"]
       ELSE SendNew(<<>>, "none")

WeeklyRecordForWeek_NoCheck(stored, week_start) == stored

WeeklyRecordForWeek(stored, week_start) ==
    IF stored # NoRow /\ stored.week_start # week_start THEN NoRow ELSE stored

WeeklyOnEditError_ResendUnmodified(err) == "send new"

WeeklyOnEditError(err) ==
    IF err = "message to edit not found" \/ err = "message_id_invalid"
    THEN "send new"
    ELSE IF err = "message is not modified"
    THEN "return"
    ELSE "return"

WeeklyOnPinError(err) == "continue"

send_or_update_weekly_pinned(tbl, newId, week_start, editOut, sendOut, pinOut) ==
    LET chat_id == REQUIRED_TG_GROUP_ID
        stored == get_pinned_message_info(tbl, chat_id)
        pinned_info == WeeklyRecordForWeek(stored, week_start)
        SendNew(edited, editResult) ==
            IF sendOut = "ok"
            THEN IF pinOut = "ok" \/ WeeklyOnPinError(pinOut) = "continue"
                 THEN [tbl |-> save_pinned_message_info(
                                   tbl, chat_id, newId, week_start),
                       stored |-> stored, edited |-> edited, edit |-> editResult,
                       sent |-> <<newId>>, send |-> sendOut, pin |-> pinOut]
                 ELSE [tbl |-> tbl,
                       stored |-> stored, edited |-> edited, edit |-> editResult,
                       sent |-> <<newId>>, send |-> sendOut, pin |-> pinOut]
            ELSE [tbl |-> tbl,
                  stored |-> stored, edited |-> edited, edit |-> editResult,
                  sent |-> <<>>, send |-> sendOut, pin |-> "none"]
    IN IF pinned_info # NoRow
       THEN IF editOut = "ok"
            THEN [tbl |-> save_pinned_message_info(
                              tbl, chat_id, pinned_info.message_id, week_start),
                  stored |-> stored, edited |-> <<pinned_info.message_id>>,
                  edit |-> editOut, sent |-> <<>>, send |-> "none", pin |-> "none"]
            ELSE IF WeeklyOnEditError(editOut) = "send new"
            THEN SendNew(<<pinned_info.message_id>>, editOut)
            ELSE [tbl |-> tbl,
                  stored |-> stored, edited |-> <<pinned_info.message_id>>,
                  edit |-> editOut, sent |-> <<>>, send |-> "none", pin |-> "none"]
       ELSE SendNew(<<>>, "none")

(* ----------------- direct calls of the ledger operations --------------- *)
(* call records the arguments of the last call; had is the set of         *)
(* entities that had a row for the called week before it, and rolled tells *)
(* that the call before it was an is_new_week = TRUE upsert of one record  *)
(* for the same week and the same entities.                                *)
NoCall == [op |-> "none", week_start |-> -1, contributions |-> <<>>,
           is_new_week |-> FALSE, had |-> {}, rolled |-> FALSE]

IdsOf(contributions) ==
    {contributions[i].mangabuff_id : i \in DOMAIN contributions}

Metrics == {"alliance", "club"}

NoReconcile == [metric |-> "none", week_start |-> -1, stored |-> NoRow,
                edited |-> <<>>, edit |-> "none", sent |-> <<>>,
                send |-> "none", pin |-> "none", cleared |-> FALSE]

NoStreak == [week_start |-> -1, sends |-> 0]

(* The log of a loop step: whether fetch_page returned a page, the records *)
(* parsed from it, the is_new_week flag of every upsert the step           *)
(* committed, and whether an exception ended the step.                     *)
NoCycle == [phase |-> "none", fetched |-> FALSE, contributions |-> <<>>,
            upserts |-> <<>>, raised |-> FALSE,
            data |-> FALSE, saved |-> FALSE, signalled |-> FALSE]

CycleLog(phase, fetched, contributions, upserts, raised) ==
    [NoCycle EXCEPT !.phase = phase, !.fetched = fetched,
                    !.contributions = IF fetched THEN contributions ELSE <<>>,
                    !.upserts = upserts, !.raised = raised]

(* The log of an iteration of parse_loop: whether parse() returned data,   *)
(* whether fetch_weekly_ajax returned a page and the records parsed from   *)
(* it, whether save_weekly_contributions committed, whether an exception   *)
(* ended the iteration, and whether mark_failure was called.               *)
ParseLog(data, fetched, contributions, saved, raised, signalled) ==
    [NoCycle EXCEPT !.phase = "parse", !.data = data, !.fetched = fetched,
                    !.contributions = IF fetched THEN contributions ELSE <<>>,
                    !.saved = saved, !.raised = raised, !.signalled = signalled]

(* The log of a call of fetch_page: what the server would answer to each   *)
(* of the attempts, what the call returned, and the calls it made in       *)
(* order, <<"get", attempt>> and <<"sleep", seconds>>.                     *)
None == [ok |-> FALSE, text |-> <<>>]

NoFetch == [op |-> "none", responses |-> <<>>, result |-> None, calls |-> <<>>]

(* The await at which an iteration of alliance_monitor_loop is suspended,  *)
(* the week and the records the iteration computed from the page, and      *)
(* whether the task was cancelled there.                                   *)
Asleep == [point |-> "sleep", week |-> -1, contributions |-> <<>>,
           cancelled |-> FALSE]

(* The cards table as the loop uses it: the card get_current_card returns  *)
(* (NoCard when there is none) and the cards archive_card has archived.    *)
NoCard == 0

NoCards == [current |-> NoCard, archived |-> {}]

(* The log of the card part of an iteration: the current card it read, the *)
(* card_id parse() returned (NoCard when it returned no data), the calls   *)
(* it made in order, and whether an exception ended the iteration.         *)
NoCardLog == [op |-> "none", current |-> NoCard, card_id |-> NoCard,
              calls |-> <<>>, raised |-> FALSE]

(* The slug of a title as get_current_manga_slug returns it (NoSlug for    *)
(* None), and the stored alliance titles: the one                          *)
(* get_current_alliance_manga returns and the ones stored before it.       *)
NoSlug == "none"

NoManga == [current |-> NoSlug, history |-> {}]

(* The log of the manga part of a step: the slug read from the page, the   *)
(* calls made in order as <<name, slug>>, and whether an exception ended   *)
(* the step.                                                               *)
NoMangaLog == [phase |-> "none", new_slug |-> NoSlug, calls |-> <<>>,
               raised |-> FALSE]

(* The log of a query: its name, its week_start argument (-1 when it has   *)
(* none), and the rows or the weeks returned, in order.                    *)
NoAnswer == [op |-> "none", week_start |-> -1, rows |-> <<>>, weeks |-> <<>>]

(* The log of a comparison of fingerprints: the function called, the two   *)
(* record lists given to it and the fingerprint of each.                   *)
NoHashed == [op |-> "none", a |-> <<>>, b |-> <<>>,
             hash_a |-> NoHash, hash_b |-> NoHash]

(* The log of a comparison of weeks: the module whose functions were       *)
(* called, the two dates given, the week start returned for each and the   *)
(* week end returned for the first week start.                             *)
NoWindow == [op |-> "none", t1 |-> <<>>, t2 |-> <<>>,
             start1 |-> "", start2 |-> "", end1 |-> ""]

(* The event loop has one thread.  A task holds it from one await to the   *)
(* next; a call that blocks holds it until the call returns.  A call given *)
(* to run_in_executor runs on a worker thread while its task is suspended. *)
NoSched == [thread |-> "idle", parse |-> "sleep", alliance |-> "sleep",
            handled |-> FALSE]

(* A call of the reconciler between two of its awaits: the await it is at, *)
(* the record it read and the id of the message it sent.                   *)
NotCalled == [pc |-> "none", stored |-> NoRow, message_id |-> -1]

NoRace == [metric |-> "none", week_start |-> -1, had |-> NoRow,
           loop |-> NotCalled, admin |-> NotCalled, sent |-> <<>>]

(* A ProxyManager. A proxy is the URL FreeProxy hands out, here a number;  *)
(* NoProxy is Python's None in _current_proxy, and NoProxies the None that *)
(* get_proxies returns in place of a dictionary.                           *)
MaxProxies == 3
MaxProxyFailures == 4
proxy_max_consecutive_failures == 3
max_attempts == 2

Proxies == 1..MaxProxies
NoProxy == 0

format_proxy(proxy) == [http |-> proxy, https |-> proxy]

NoProxies == format_proxy(NoProxy)

ProxyManager(enabled) ==
    [enabled |-> enabled,
     current_proxy |-> NoProxy,
     failed_proxies |-> {},
     consecutive_failures |-> 0]

NewProxyManager(enabled) ==
    [self |-> ProxyManager(enabled), op |-> "__init__",
     returned |-> NoProxies, discarded |-> {}]

MainProxyManager == NewProxyManager(TRUE)

(* The booking subsystem: the rows of the bookings table, the private      *)
(* conversation and the group inline flow, and the handler the application *)
(* is running. A date is a day count and a time a count of slot marks.     *)
MaxSlot == 3
MaxUsers == 2

Flows == {"private", "group"}
BookingUsers == 1..MaxUsers
Times == 0..MaxSlot

NoFlow == [pc |-> "idle", tg_id |-> 0, date |-> -1, start_time |-> -1,
           end_time |-> -1, outcome |-> "none"]

NoBook == [bookings |-> {}, next_id |-> 1, running |-> "none",
           flows |-> [f \in Flows |-> NoFlow]]

(* A ledger call that raised before its commit: the function, its          *)
(* arguments, the statement that raised (the commit is statement           *)
(* Len(contributions) + 1) and the rows as the connection saw them then.   *)
NoTxn == [op |-> "none", week_start |-> -1, contributions |-> <<>>,
          is_new_week |-> FALSE, failed_at |-> 0, pending |-> {}]

InitState ==
    /\ today = FirstDay
    /\ ledger = {}
    /\ nicks = {}
    /\ weekly = {}
    /\ call = NoCall
    /\ pinnedA = {}
    /\ pinnedW = {}
    /\ live = {}
    /\ nextId = 1
    /\ rc = NoReconcile
    /\ streak = [m \in Metrics |-> NoStreak]
    /\ running = FALSE
    /\ last_club_hash = NoHash
    /\ last_week_start = -1
    /\ is_initialized = FALSE
    /\ cyc = NoCycle
    /\ parsing = FALSE
    /\ last_weekly_hash = NoHash
    /\ weekly_last_week_start = -1
    /\ weekly_check_counter = 0
    /\ consecutive_failures = 0
    /\ failed_fetches = 0
    /\ fetch = NoFetch
    /\ at = Asleep
    /\ card_db = NoCards
    /\ card_log = NoCardLog
    /\ current_slug = NoSlug
    /\ manga_db = NoManga
    /\ manga_log = NoMangaLog
    /\ answer = NoAnswer
    /\ sched = NoSched
    /\ race = NoRace
    /\ txn = NoTxn
    /\ rowids = {}
    /\ book = NoBook

InitCommon ==
    InitState /\ task = "none" /\ hashed = NoHashed /\ window = NoWindow
    /\ pm = MainProxyManager

CallUpsert ==
    \E w \in WeekStarts, cs \in RecordLists, nw \in BOOLEAN :
        /\ ledger' = upsert_alliance_contributions(ledger, w, cs, nw)
        /\ nicks' = upsert_alliance_nicks(nicks, w, cs)
        /\ call' = [op |-> "upsert", week_start |-> w, contributions |-> cs,
                    is_new_week |-> nw,
                    had |-> {r.mangabuff_id : r \in RowsOfWeek(ledger, w)},
                    rolled |-> /\ call.op = "upsert" /\ call.is_new_week
                               /\ call.week_start = w
                               /\ Len(call.contributions) = 1
                               /\ IdsOf(call.contributions) = IdsOf(cs)]
        /\ UNCHANGED <<today, weekly, chatVars, loopVars>>

CallSaveWeekly ==
    \E w \in WeekStarts, cs \in RecordLists :
        /\ weekly' = save_weekly_contributions(weekly, w, cs)
        /\ call' = [op |-> "save", week_start |-> w, contributions |-> cs,
                    is_new_week |-> FALSE,
                    had |-> {r.mangabuff_id : r \in RowsOfWeek(weekly, w)},
                    rolled |-> FALSE]
        /\ UNCHANGED <<today, ledger, nicks, chatVars, loopVars>>

NextLedger == CallUpsert

SpecLedger == InitCommon /\ [][NextLedger]_vars

NextWeekly == CallSaveWeekly

SpecWeekly == InitCommon /\ [][NextWeekly]_vars

(* --------------- direct calls of the reconciler ------------------------ *)
Logged(metric, week_start, res) ==
    [metric |-> metric, week_start |-> week_start, stored |-> res.stored,
     edited |-> res.edited, edit |-> res.edit, sent |-> res.sent,
     send |-> res.send, pin |-> res.pin, cleared |-> FALSE]

Continued(s, week_start, res) ==
    [week_start |-> week_start,
     sends |-> IF s.week_start = week_start
               THEN s.sends + Len(res.sent) ELSE Len(res.sent)]

ApplyAlliancePinned(w, e, s, p) ==
    LET res == send_or_update_alliance_pinned(pinnedA, nextId, w, e, s, p)
    IN /\ pinnedA' = res.tbl
       /\ live' = live \cup {res.sent[i] : i \in DOMAIN res.sent}
       /\ nextId' = nextId + Len(res.sent)
       /\ rc' = Logged("alliance", w, res)

ApplyWeeklyPinned(w, e, s, p) ==
    LET res == send_or_update_weekly_pinned(pinnedW, nextId, w, e, s, p)
    IN /\ pinnedW' = res.tbl
       /\ live' = live \cup {res.sent[i] : i \in DOMAIN res.sent}
       /\ nextId' = nextId + Len(res.sent)
       /\ rc' = Logged("club", w, res)

AllianceEditOutcomes ==
    EditOutcomes(live, get_pinned_alliance_message(pinnedA, REQUIRED_TG_GROUP_ID).message_id)

WeeklyEditOutcomes ==
    EditOutcomes(live, get_pinned_message_info(pinnedW, REQUIRED_TG_GROUP_ID).message_id)

ReconcileAlliance ==
    /\ \E w \in WeekStarts, e \in AllianceEditOutcomes,
          s \in SendOutcomes(nextId), p \in PinOutcomes :
          /\ ApplyAlliancePinned(w, e, s, p)
          /\ streak' = [streak EXCEPT !["alliance"] = Continued(@, w, rc')]
    /\ UNCHANGED <<today, ledgerVars, pinnedW, loopVars>>

ReconcileWeekly ==
    /\ \E w \in WeekStarts, e \in WeeklyEditOutcomes,
          s \in SendOutcomes(nextId), p \in PinOutcomes :
          /\ ApplyWeeklyPinned(w, e, s, p)
          /\ streak' = [streak EXCEPT !["club"] = Continued(@, w, rc')]
    /\ UNCHANGED <<today, ledgerVars, pinnedA, loopVars>>

StoredId(m) ==
    IF m = "alliance"
    THEN get_pinned_alliance_message(pinnedA, REQUIRED_TG_GROUP_ID).message_id
    ELSE get_pinned_message_info(pinnedW, REQUIRED_TG_GROUP_ID).message_id

(* A chat member deletes the pinned message of a metric (deleting any      *)
(* other message of the bot changes nothing the bot reads).                *)
DeleteMessage ==
    \E m \in live \cap {StoredId(k) : k \in Metrics} :
        /\ live' = live \ {m}
        /\ streak' = [k \in Metrics |-> IF StoredId(k) = m THEN NoStreak ELSE streak[k]]
        /\ rc' = NoReconcile
        /\ cyc' = NoCycle
        /\ UNCHANGED <<today, ledgerVars, pinnedA, pinnedW, nextId,
                       allianceVars, parseVars, task, otherVars>>

(* The admin commands /refreshalliance and /refreshweekly: the record of   *)
(* the chat is cleared, the rows of the current week are read, and when    *)
(* there are rows the reconciler is called.  rows_found tells whether the  *)
(* read returned rows; cleared marks the call in the log.                  *)
refreshalliance_command(rows_found) ==
    LET table == clear_pinned_alliance_message(pinnedA, REQUIRED_TG_GROUP_ID)
        week_start == get_alliance_week_start(today)
    IN /\ IF ~rows_found
          THEN /\ pinnedA' = table
               /\ rc' = NoReconcile
               /\ streak' = [streak EXCEPT !["alliance"] = NoStreak]
               /\ UNCHANGED <<live, nextId>>
          ELSE \E s \in SendOutcomes(nextId), p \in PinOutcomes :
                  LET res == send_or_update_alliance_pinned(
                                 table, nextId, week_start, "none", s, p)
                  IN /\ pinnedA' = res.tbl
                     /\ live' = live \cup {res.sent[i] : i \in DOMAIN res.sent}
                     /\ nextId' = nextId + Len(res.sent)
                     /\ rc' = [Logged("alliance", week_start, res)
                                  EXCEPT !.cleared = TRUE]
                     /\ streak' = [streak EXCEPT
                                     !["alliance"] = Continued(NoStreak, week_start, res)]
       /\ UNCHANGED pinnedW

refreshweekly_command(rows_found) ==
    LET table == clear_pinned_message_info(pinnedW, REQUIRED_TG_GROUP_ID)
        week_start == get_week_start(today)
    IN /\ IF ~rows_found
          THEN /\ pinnedW' = table
               /\ rc' = NoReconcile
               /\ streak' = [streak EXCEPT !["club"] = NoStreak]
               /\ UNCHANGED <<live, nextId>>
          ELSE \E s \in SendOutcomes(nextId), p \in PinOutcomes :
                  LET res == send_or_update_weekly_pinned(
                                 table, nextId, week_start, "none", s, p)
                  IN /\ pinnedW' = res.tbl
                     /\ live' = live \cup {res.sent[i] : i \in DOMAIN res.sent}
                     /\ nextId' = nextId + Len(res.sent)
                     /\ rc' = [Logged("club", week_start, res)
                                  EXCEPT !.cleared = TRUE]
                     /\ streak' = [streak EXCEPT
                                     !["club"] = Continued(NoStreak, week_start, res)]
       /\ UNCHANGED pinnedA

RefreshAlliance ==
    /\ \E rows_found \in BOOLEAN : refreshalliance_command(rows_found)
    /\ UNCHANGED <<today, ledgerVars, loopVars>>

RefreshWeekly ==
    /\ \E rows_found \in BOOLEAN : refreshweekly_command(rows_found)
    /\ UNCHANGED <<today, ledgerVars, loopVars>>

(* The passing of a day. *)
Tick ==
    /\ today < MaxDay
    /\ today' = today + 1
    /\ rc' = NoReconcile
    /\ cyc' = NoCycle
    /\ UNCHANGED <<ledgerVars, pinnedA, pinnedW, live, nextId, streak,
                   allianceVars, parseVars, task, otherVars>>

NextReconcile ==
    \/ ReconcileAlliance \/ ReconcileWeekly \/ DeleteMessage
    \/ RefreshAlliance \/ RefreshWeekly \/ Tick

SpecReconcile == InitCommon /\ [][NextReconcile]_vars

(* ------------------------ alliance_monitor_loop ------------------------ *)
(* One start of the task (the code before its while loop), one iteration   *)
(* of the loop, its cancellation, and the passing of a day.  fetched tells *)
(* whether fetch_page returned a page; dbFail = k > 0 makes the k-th       *)
(* ledger write of the step raise a storage error before its commit.  An   *)
(* exception in the start-up code ends the task; one in an iteration is    *)
(* caught and logged by the loop.                                          *)
NoAlliancePinned == /\ rc' = NoReconcile
                    /\ UNCHANGED <<pinnedA, live, nextId>>

ContributionsChanged_Always(current_hash, last_hash) == TRUE

ContributionsChanged(current_hash, last_hash) == current_hash # last_hash

(* The change of week resets the remembered fingerprint. *)
RolledHash_Kept(week_changed, last_hash) == last_hash

RolledHash(week_changed, last_hash) == IF week_changed THEN NoHash ELSE last_hash

(* The fingerprint is remembered after the upsert and the reconciler have  *)
(* returned: when the upsert raises it stays as it was.                    *)
HashAfterFailedUpsert_Advanced(hash1, current_hash) == current_hash

HashAfterFailedUpsert(hash1, current_hash) == hash1

(* The week is remembered after the upsert of the change of week has       *)
(* returned: when that upsert raises it stays as it was.                   *)
WeekAfterFailedUpsert_Advanced(last_week, current_week) == current_week

WeekAfterFailedUpsert(last_week, current_week) == last_week

(* The iteration ends early (continue) when fetch_page returned no page or *)
(* the parser found no record in it.                                       *)
NothingToRecord_PageOnly(fetched, contributions) == ~fetched

NothingToRecord(fetched, contributions) == ~fetched \/ contributions = <<>>

LinkedPages == {p \in Pages : \A i \in DOMAIN p : p[i].uid # NoUserLink}

Start ==
    /\ ~running
    /\ \E fetched \in BOOLEAN, page \in LinkedPages :
          LET week_start == get_alliance_week_start(today)
              contributions == parse_alliance_club_contributions(page)
          IN IF fetched /\ contributions # <<>>
             THEN \E dbFail \in 0..1 :
                     IF dbFail = 1
                     THEN /\ NoAlliancePinned
                          /\ cyc' = CycleLog("start", fetched, contributions, <<>>, TRUE)
                          /\ UNCHANGED <<ledger, nicks, allianceVars>>
                     ELSE /\ ledger' = upsert_alliance_contributions(
                                           ledger, week_start, contributions, TRUE)
                          /\ nicks' = upsert_alliance_nicks(
                                          nicks, week_start, contributions)
                          /\ \E e \in AllianceEditOutcomes, s \in SendOutcomes(nextId),
                                p \in PinOutcomes :
                                ApplyAlliancePinned(week_start, e, s, p)
                          /\ last_club_hash' = compute_alliance_hash(contributions)
                          /\ last_week_start' = week_start
                          /\ is_initialized' = TRUE
                          /\ running' = TRUE
                          /\ cyc' = CycleLog("start", fetched, contributions,
                                             <<TRUE>>, FALSE)
             ELSE /\ last_club_hash' = NoHash
                  /\ last_week_start' = week_start
                  /\ is_initialized' = FALSE
                  /\ running' = TRUE
                  /\ NoAlliancePinned
                  /\ cyc' = CycleLog("start", fetched, contributions, <<>>, FALSE)
                  /\ UNCHANGED <<ledger, nicks>>
    /\ UNCHANGED <<today, weekly, call, pinnedW, streak, parseVars, task, otherVars>>

Cycle ==
    /\ running
    /\ \E fetched \in BOOLEAN, page \in LinkedPages :
          LET current_week_start == get_alliance_week_start(today)
              contributions == parse_alliance_club_contributions(page)
              current_hash == compute_alliance_hash(contributions)
              week_changed == current_week_start # last_week_start
              rolled == IF week_changed
                        THEN upsert_alliance_contributions(
                                 ledger, current_week_start, contributions, TRUE)
                        ELSE ledger
              rolledNicks == IF week_changed
                             THEN upsert_alliance_nicks(
                                      nicks, current_week_start, contributions)
                             ELSE nicks
              first == IF week_changed THEN <<TRUE>> ELSE <<>>
              hash1 == RolledHash(week_changed, last_club_hash)
              week1 == IF week_changed THEN current_week_start ELSE last_week_start
              is_new == ~is_initialized \/ current_week_start # week1
              secondWrite == IF week_changed THEN 2 ELSE 1
          IN IF NothingToRecord(fetched, contributions)
             THEN /\ NoAlliancePinned
                  /\ cyc' = CycleLog("cycle", fetched, contributions, <<>>, FALSE)
                  /\ UNCHANGED <<ledger, nicks, allianceVars>>
             ELSE \E dbFail \in 0..secondWrite :
                     IF week_changed /\ dbFail = 1
                     THEN /\ NoAlliancePinned
                          /\ cyc' = CycleLog("cycle", fetched, contributions, <<>>, TRUE)
                          /\ last_week_start' = WeekAfterFailedUpsert(
                                                    last_week_start, current_week_start)
                          /\ UNCHANGED <<ledger, nicks, running, last_club_hash,
                                         is_initialized>>
                     ELSE IF ~ContributionsChanged(current_hash, hash1)
                             \/ dbFail = secondWrite
                     THEN /\ ledger' = rolled
                          /\ nicks' = rolledNicks
                          /\ last_week_start' = current_week_start
                          /\ last_club_hash' =
                                IF ContributionsChanged(current_hash, hash1)
                                THEN HashAfterFailedUpsert(hash1, current_hash)
                                ELSE hash1
                          /\ NoAlliancePinned
                          /\ cyc' = CycleLog("cycle", fetched, contributions, first,
                                             ContributionsChanged(current_hash, hash1))
                          /\ UNCHANGED <<running, is_initialized>>
                     ELSE /\ ledger' = upsert_alliance_contributions(
                                           rolled, current_week_start,
                                           contributions, is_new)
                          /\ nicks' = upsert_alliance_nicks(
                                          rolledNicks, current_week_start,
                                          contributions)
                          /\ \E e \in AllianceEditOutcomes, s \in SendOutcomes(nextId),
                                p \in PinOutcomes :
                                ApplyAlliancePinned(current_week_start, e, s, p)
                          /\ last_week_start' = current_week_start
                          /\ last_club_hash' = current_hash
                          /\ is_initialized' = TRUE
                          /\ cyc' = CycleLog("cycle", fetched, contributions,
                                             Append(first, is_new), FALSE)
                          /\ UNCHANGED running
    /\ UNCHANGED <<today, weekly, call, pinnedW, streak, parseVars, task, otherVars>>

Stop ==
    /\ running
    /\ running' = FALSE
    /\ last_club_hash' = NoHash
    /\ last_week_start' = -1
    /\ is_initialized' = FALSE
    /\ rc' = NoReconcile
    /\ cyc' = NoCycle
    /\ UNCHANGED <<today, ledgerVars, pinnedA, pinnedW, live, nextId, streak,
                   parseVars, task, otherVars>>

Next == Start \/ Cycle \/ Stop \/ Tick \/ DeleteMessage

Spec == InitCommon /\ [][Next]_vars

(* ------------------------------ parse_loop ----------------------------- *)
(* The start of the task, one iteration of its loop (the whole try block   *)
(* and its except clause), and the end of the process.  current_raises:    *)
(* get_current_card raises; data: parse() returned the boost page's data;  *)
(* fetched: fetch_weekly_ajax returned the weekly top; db_fails: the       *)
(* ledger write raises before its commit; card_raises: the card part of    *)
(* the iteration (archive, insert, notify) raises.                         *)
bot_data == {"session", "rank_detector"}

WeeklyStatsChanged_Always(current_hash, last_hash) == TRUE

WeeklyStatsChanged(current_hash, last_hash) == current_hash # last_hash

NoWeeklyPinned == /\ rc' = NoReconcile
                  /\ UNCHANGED <<pinnedW, live, nextId>>

ParseStart ==
    /\ ~parsing
    /\ parsing' = TRUE
    /\ last_weekly_hash' = NoHash
    /\ weekly_last_week_start' = get_week_start(today)
    /\ weekly_check_counter' = 0
    /\ consecutive_failures' = 0
    /\ failed_fetches' = 0
    /\ cyc' = NoCycle
    /\ rc' = NoReconcile
    /\ UNCHANGED <<today, ledgerVars, pinnedA, pinnedW, live, nextId, streak,
                   allianceVars, task, otherVars>>

(* The card part of an iteration, after the weekly part has returned. *)
CardPart(fetched, contributions, saved) ==
    \E card_raises \in BOOLEAN :
        /\ consecutive_failures' = IF card_raises THEN 1 ELSE 0
        /\ cyc' = ParseLog(TRUE, fetched, contributions, saved, card_raises, FALSE)

ParseCycle ==
    /\ parsing
    /\ \E current_raises \in BOOLEAN :
          IF current_raises
          THEN /\ consecutive_failures < MaxFailures
               /\ consecutive_failures' = consecutive_failures + 1
               /\ failed_fetches' = 0
               /\ cyc' = ParseLog(FALSE, FALSE, <<>>, FALSE, TRUE, FALSE)
               /\ NoWeeklyPinned
               /\ UNCHANGED <<weekly, last_weekly_hash, weekly_last_week_start,
                              weekly_check_counter>>
          ELSE \E data \in BOOLEAN :
                  IF ~data
                  THEN \E has_session \in BOOLEAN :
                          LET failures == consecutive_failures + 1
                              persistent == failures >= max_consecutive_failures
                              signalled == /\ persistent
                                           /\ has_session
                                           /\ "proxy_manager" \in bot_data
                          IN /\ consecutive_failures' = IF persistent THEN 0 ELSE failures
                             /\ failed_fetches' =
                                    (failed_fetches % max_consecutive_failures) + 1
                             /\ cyc' = ParseLog(FALSE, FALSE, <<>>, FALSE, FALSE, signalled)
                             /\ NoWeeklyPinned
                             /\ UNCHANGED <<weekly, last_weekly_hash,
                                            weekly_last_week_start, weekly_check_counter>>
                  ELSE LET current_week_start == get_week_start(today)
                           week_changed == current_week_start # weekly_last_week_start
                           hash1 == IF week_changed THEN NoHash ELSE last_weekly_hash
                           counter1 == (IF week_changed THEN 0 ELSE weekly_check_counter) + 1
                       IN /\ weekly_last_week_start' = current_week_start
                          /\ failed_fetches' = 0
                          /\ IF counter1 < WEEKLY_CHECK_EVERY
                             THEN /\ weekly_check_counter' = counter1
                                  /\ last_weekly_hash' = hash1
                                  /\ NoWeeklyPinned
                                  /\ UNCHANGED weekly
                                  /\ CardPart(FALSE, <<>>, FALSE)
                             ELSE /\ weekly_check_counter' = 0
                                  /\ \E fetched \in BOOLEAN, page \in LinkedPages :
                                        LET weekly_contributions ==
                                                parse_weekly_contributions(page)
                                            current_hash ==
                                                compute_stats_hash(weekly_contributions)
                                        IN IF \/ ~fetched
                                              \/ weekly_contributions = <<>>
                                              \/ ~WeeklyStatsChanged(current_hash, hash1)
                                           THEN /\ last_weekly_hash' = hash1
                                                /\ NoWeeklyPinned
                                                /\ UNCHANGED weekly
                                                /\ CardPart(fetched, weekly_contributions,
                                                            FALSE)
                                           ELSE \E db_fails \in BOOLEAN :
                                                   IF db_fails
                                                   THEN /\ last_weekly_hash' = hash1
                                                        /\ consecutive_failures' = 1
                                                        /\ cyc' = ParseLog(
                                                               TRUE, fetched,
                                                               weekly_contributions,
                                                               FALSE, TRUE, FALSE)
                                                        /\ NoWeeklyPinned
                                                        /\ UNCHANGED weekly
                                                   ELSE /\ weekly' = save_weekly_contributions(
                                                               weekly, current_week_start,
                                                               weekly_contributions)
                                                        /\ \E e \in WeeklyEditOutcomes,
                                                              s \in SendOutcomes(nextId),
                                                              p \in PinOutcomes :
                                                              ApplyWeeklyPinned(
                                                                  current_week_start, e, s, p)
                                                        /\ last_weekly_hash' = current_hash
                                                        /\ CardPart(fetched,
                                                                    weekly_contributions, TRUE)
    /\ UNCHANGED <<today, ledger, nicks, call, pinnedA, streak, allianceVars, parsing, task, otherVars>>

ParseStop ==
    /\ parsing
    /\ parsing' = FALSE
    /\ last_weekly_hash' = NoHash
    /\ weekly_last_week_start' = -1
    /\ weekly_check_counter' = 0
    /\ consecutive_failures' = 0
    /\ failed_fetches' = 0
    /\ cyc' = NoCycle
    /\ rc' = NoReconcile
    /\ UNCHANGED <<today, ledgerVars, pinnedA, pinnedW, live, nextId, streak,
                   allianceVars, task, otherVars>>

NextParse == ParseStart \/ ParseCycle \/ ParseStop \/ Tick \/ DeleteMessage

SpecParse == InitCommon /\ [][NextParse]_vars

(* The two loops are separate tasks with their own locals and their own    *)
(* tables; a behaviour of SpecLoops follows one of them.                   *)
InitLoops ==
    InitState /\ task \in Metrics /\ hashed = NoHashed /\ window = NoWindow
    /\ pm = MainProxyManager

NextLoops ==
    \/ task = "alliance" /\ (Start \/ Cycle \/ Stop)
    \/ task = "club" /\ (ParseStart \/ ParseCycle \/ ParseStop)
    \/ Tick
    \/ DeleteMessage

SpecLoops == InitLoops /\ [][NextLoops]_vars

(* ----------------------- AllianceParser.fetch_page --------------------- *)
(* What session.get can do in one attempt: answer with a status (200 with  *)
(* the page, 500, another one), or raise Timeout, ConnectionError or       *)
(* another exception.  The get itself is bounded by its timeout.           *)
FetchFailures == {"HTTP 500", "HTTP 404", "Timeout", "ConnectionError", "Exception"}

Responses ==
    [kind : {"HTTP 200"}, text : LinkedPages]
        \cup [kind : FetchFailures, text : {<<>>}]

RetryWait_Always(attempt) == << <<"sleep", RETRY_DELAY>> >>

RetryWait(attempt) ==
    IF attempt < MAX_RETRIES - 1 THEN << <<"sleep", RETRY_DELAY>> >> ELSE <<>>

RECURSIVE FetchAttempts(_, _, _)
FetchAttempts(attempt, responses, calls) ==
    IF attempt >= MAX_RETRIES
    THEN [result |-> None, calls |-> calls]
    ELSE LET response == responses[attempt + 1]
             got == Append(calls, <<"get", attempt>>)
         IN IF response.kind = "HTTP 500"
            THEN FetchAttempts(attempt + 1, responses, got \o RetryWait(attempt))
            ELSE IF response.kind = "HTTP 404"
            THEN FetchAttempts(attempt + 1, responses, got \o RetryWait(attempt))
            ELSE IF response.kind = "HTTP 200"
            THEN [result |-> [ok |-> TRUE, text |-> response.text], calls |-> got]
            ELSE FetchAttempts(attempt + 1, responses, got \o RetryWait(attempt))

fetch_page(responses) == FetchAttempts(0, responses, <<>>)

CallFetchPage ==
    \E responses \in [1..MAX_RETRIES -> Responses] :
        LET out == fetch_page(responses)
        IN /\ fetch' = [op |-> "fetch_page", responses |-> responses,
                        result |-> out.result, calls |-> out.calls]
           /\ UNCHANGED <<today, ledgerVars, chatVars, allianceVars, cyc,
                          parseVars, task, at, cardVars, mangaVars, answer, hashed, window, sched, race, txn, rowids, pm, book>>

NextFetch == CallFetchPage

SpecFetch == InitCommon /\ [][NextFetch]_vars

(* ------------- alliance_monitor_loop, await by await -------------------- *)
(* An iteration of the loop split at its awaits: asyncio.sleep, the        *)
(* fetch in the executor, the upsert of a change of week, the upsert of    *)
(* the changed snapshot, get_alliance_week_rows and the reconciler.  Each  *)
(* action is the return of the awaited call and the code up to the next    *)
(* await.  task.cancel() raises CancelledError at the await the task is    *)
(* suspended at, whichever it is; the loop catches it and breaks.          *)
(* Exceptions of an iteration are the subject of Cycle and are left out    *)
(* here, as is the manga part of the iteration.                            *)
Awaits == {"sleep", "fetch", "week_upsert", "upsert", "rows", "reconcile"}

CancellableAwaits == Awaits

Suspend(point, week, contributions) ==
    [point |-> point, week |-> week, contributions |-> contributions,
     cancelled |-> FALSE]

SleepReturns ==
    /\ running /\ at.point = "sleep"
    /\ at' = Suspend("fetch", -1, <<>>)
    /\ cyc' = NoCycle
    /\ rc' = NoReconcile
    /\ UNCHANGED <<today, ledgerVars, pinnedA, pinnedW, live, nextId, streak,
                   allianceVars, parseVars, task, fetch, cardVars, mangaVars, answer, hashed, window, sched, race, txn, rowids, pm, book>>

FetchReturns ==
    /\ running /\ at.point = "fetch"
    /\ \E fetched \in BOOLEAN, page \in LinkedPages :
          LET current_week_start == get_alliance_week_start(today)
              contributions == parse_alliance_club_contributions(page)
              current_hash == compute_alliance_hash(contributions)
          IN at' = IF NothingToRecord(fetched, contributions)
                   THEN Asleep
                   ELSE IF current_week_start # last_week_start
                   THEN Suspend("week_upsert", current_week_start, contributions)
                   ELSE IF ContributionsChanged(current_hash, last_club_hash)
                   THEN Suspend("upsert", current_week_start, contributions)
                   ELSE Asleep
    /\ UNCHANGED <<today, ledgerVars, chatVars, allianceVars, cyc, parseVars,
                   task, fetch, cardVars, mangaVars, answer, hashed, window, sched, race, txn, rowids, pm, book>>

WeekUpsertReturns ==
    /\ running /\ at.point = "week_upsert"
    /\ ledger' = upsert_alliance_contributions(ledger, at.week, at.contributions, TRUE)
    /\ nicks' = upsert_alliance_nicks(nicks, at.week, at.contributions)
    /\ last_week_start' = at.week
    /\ last_club_hash' = RolledHash(TRUE, last_club_hash)
    /\ at' = IF ContributionsChanged(compute_alliance_hash(at.contributions),
                                     last_club_hash')
             THEN Suspend("upsert", at.week, at.contributions)
             ELSE Asleep
    /\ UNCHANGED <<today, weekly, call, chatVars, running, is_initialized, cyc,
                   parseVars, task, fetch, cardVars, mangaVars, answer, hashed, window, sched, race, txn, rowids, pm, book>>

UpsertReturns ==
    /\ running /\ at.point = "upsert"
    /\ ledger' = upsert_alliance_contributions(
                     ledger, at.week, at.contributions,
                     ~is_initialized \/ at.week # last_week_start)
    /\ nicks' = upsert_alliance_nicks(nicks, at.week, at.contributions)
    /\ at' = Suspend("rows", at.week, at.contributions)
    /\ UNCHANGED <<today, weekly, call, chatVars, allianceVars, cyc, parseVars,
                   task, fetch, cardVars, mangaVars, answer, hashed, window, sched, race, txn, rowids, pm, book>>

RowsReturn ==
    /\ running /\ at.point = "rows"
    /\ at' = Suspend("reconcile", at.week, at.contributions)
    /\ UNCHANGED <<today, ledgerVars, chatVars, allianceVars, cyc, parseVars,
                   task, fetch, cardVars, mangaVars, answer, hashed, window, sched, race, txn, rowids, pm, book>>

ReconcileReturns ==
    /\ running /\ at.point = "reconcile"
    /\ \E e \in AllianceEditOutcomes, s \in SendOutcomes(nextId), p \in PinOutcomes :
          ApplyAlliancePinned(at.week, e, s, p)
    /\ last_club_hash' = compute_alliance_hash(at.contributions)
    /\ is_initialized' = TRUE
    /\ at' = Asleep
    /\ UNCHANGED <<today, ledgerVars, pinnedW, streak, running, last_week_start,
                   cyc, parseVars, task, fetch, cardVars, mangaVars, answer, hashed, window, sched, race, txn, rowids, pm, book>>

Cancel ==
    /\ running /\ at.point \in CancellableAwaits
    /\ running' = FALSE
    /\ at' = [at EXCEPT !.cancelled = TRUE]
    /\ UNCHANGED <<today, ledgerVars, chatVars, last_club_hash, last_week_start,
                   is_initialized, cyc, parseVars, task, fetch, cardVars, mangaVars, answer, hashed, window, sched, race, txn, rowids, pm, book>>

NextCancel ==
    \/ ~at.cancelled /\ Start
    \/ SleepReturns \/ FetchReturns \/ WeekUpsertReturns \/ UpsertReturns
    \/ RowsReturn \/ ReconcileReturns
    \/ Cancel
    \/ Tick \/ DeleteMessage

SpecCancel == InitCommon /\ [][NextCancel]_vars

(* --------------------- parse_loop, the card part ----------------------- *)
(* The card part of an iteration of parse_loop: get_current_card at its    *)
(* start, and after the weekly part (ParseCycle's subject, here only the   *)
(* input weekly_raises) the change of card: rank, archive_card,            *)
(* insert_card, card name, owners' nicks, notify_owners,                   *)
(* notify_group_new_card.  fail_at = k > 0 makes the k-th call of that     *)
(* list raise.  get_current_card, archive_card and insert_card are the     *)
(* store's: the current card is the last one inserted and not archived.    *)
CardIds == 1..MaxCards

get_current_card(db) == db.current

archive_card(db, id) ==
    [current |-> IF db.current = id THEN NoCard ELSE db.current,
     archived |-> db.archived \cup {id}]

insert_card(db, card_id) == [db EXCEPT !.current = card_id]

CardChanged_Always(current, card_id) == TRUE

CardChanged(current, card_id) == current = NoCard \/ current # card_id

CardCalls(current, card_id) ==
    <<"rank">>
        \o (IF current # NoCard THEN <<"archive_card">> ELSE <<>>)
        \o <<"insert_card", "get_card_name", "get_owners_nicknames",
             "notify_owners", "notify_group_new_card">>

RECURSIVE CardStore(_, _, _, _)
CardStore(db, current, card_id, calls) ==
    IF calls = <<>> THEN db
    ELSE CardStore(
            IF Head(calls) = "archive_card" THEN archive_card(db, current)
            ELSE IF Head(calls) = "insert_card" THEN insert_card(db, card_id)
            ELSE db,
            current, card_id, Tail(calls))

CardCycle ==
    /\ parsing
    /\ \E current_raises \in BOOLEAN, card_id \in CardIds \cup {NoCard},
          weekly_raises \in BOOLEAN :
          LET current == get_current_card(card_db)
          IN IF current_raises
             THEN /\ card_log' = [op |-> "card", current |-> NoCard,
                                  card_id |-> NoCard, calls |-> <<>>, raised |-> TRUE]
                  /\ UNCHANGED card_db
             ELSE IF card_id = NoCard
             THEN /\ card_log' = [op |-> "card", current |-> current,
                                  card_id |-> NoCard, calls |-> <<>>, raised |-> FALSE]
                  /\ UNCHANGED card_db
             ELSE IF weekly_raises
             THEN /\ card_log' = [op |-> "card", current |-> current,
                                  card_id |-> card_id, calls |-> <<>>, raised |-> TRUE]
                  /\ UNCHANGED card_db
             ELSE IF ~CardChanged(current, card_id)
             THEN /\ card_log' = [op |-> "card", current |-> current,
                                  card_id |-> card_id, calls |-> <<>>, raised |-> FALSE]
                  /\ UNCHANGED card_db
             ELSE \E fail_at \in 0..Len(CardCalls(current, card_id)) :
                     LET all == CardCalls(current, card_id)
                         done == IF fail_at = 0 THEN all
                                 ELSE SubSeq(all, 1, fail_at - 1)
                     IN /\ card_db' = CardStore(card_db, current, card_id, done)
                        /\ card_log' = [op |-> "card", current |-> current,
                                        card_id |-> card_id, calls |-> done,
                                        raised |-> fail_at # 0]
    /\ UNCHANGED <<today, ledgerVars, chatVars, allianceVars, cyc, parseVars,
                   task, fetch, at, mangaVars, answer, hashed, window, sched, race, txn, rowids, pm, book>>

NextCard == ParseStart \/ CardCycle \/ ParseStop

SpecCard == InitCommon /\ [][NextCard]_vars

(* ---------------- alliance_monitor_loop, the manga part ---------------- *)
(* The manga part of the start-up code and of an iteration (the            *)
(* contribution part is the subject of Start and Cycle).  new_slug is what *)
(* get_current_manga_slug reads from the page, details tells whether       *)
(* get_manga_details returned the title's data (it returns None after its *)
(* retries), fail_at = 1 makes save_alliance_manga raise and fail_at = 2   *)
(* notify_alliance_manga_changed.  An exception of the start-up code ends  *)
(* the task, one of an iteration is caught by the loop.                    *)
(* get_current_alliance_manga and save_alliance_manga are the store's: the *)
(* current title is the last one saved.                                    *)
Slugs == {"berserk", "monster", "vagabond"}

get_current_alliance_manga(db) == db.current

save_alliance_manga(db, slug) ==
    [current |-> slug,
     history |-> db.history \cup ({db.current} \ {NoSlug, slug})]

(* What the tracked slug becomes when get_manga_details returned None. *)
SlugWithoutDetails(current, new_slug) == new_slug

MangaChange(phase, from, new_slug, next) ==
    \E details \in BOOLEAN :
        IF ~details
        THEN /\ current_slug' = SlugWithoutDetails(from, new_slug)
             /\ manga_log' = [phase |-> phase, new_slug |-> new_slug,
                              calls |-> <<>>, raised |-> FALSE]
             /\ running' = next
             /\ UNCHANGED manga_db
        ELSE \E fail_at \in 0..2 :
                /\ manga_db' = IF fail_at = 1 THEN manga_db
                               ELSE save_alliance_manga(manga_db, new_slug)
                /\ manga_log' =
                      [phase |-> phase, new_slug |-> new_slug,
                       calls |-> IF fail_at = 1 THEN <<>>
                                 ELSE IF fail_at = 2
                                 THEN << <<"save_alliance_manga", new_slug>> >>
                                 ELSE << <<"save_alliance_manga", new_slug>>,
                                         <<"notify_alliance_manga_changed", new_slug>> >>,
                       raised |-> fail_at # 0]
                /\ current_slug' = IF fail_at = 0 THEN new_slug
                                   ELSE IF phase = "start" THEN NoSlug
                                   ELSE from
                /\ running' = IF fail_at = 0 THEN next ELSE running

MangaStart ==
    /\ ~running
    /\ \E fetched \in BOOLEAN, page_slug \in Slugs \cup {NoSlug} :
          LET start_slug == IF fetched THEN page_slug ELSE NoSlug
              saved == get_current_alliance_manga(manga_db)
          IN IF saved = NoSlug /\ start_slug # NoSlug /\ fetched
             THEN MangaChange("start", start_slug, start_slug, TRUE)
             ELSE /\ current_slug' = IF saved # NoSlug THEN saved ELSE start_slug
                  /\ manga_log' = [phase |-> "start", new_slug |-> start_slug,
                                   calls |-> <<>>, raised |-> FALSE]
                  /\ running' = TRUE
                  /\ UNCHANGED manga_db
    /\ UNCHANGED <<today, ledgerVars, chatVars, last_club_hash, last_week_start,
                   is_initialized, cyc, parseVars, task, fetch, at, cardVars, answer, hashed, window, sched, race, txn, rowids, pm, book>>

MangaCycle ==
    /\ running
    /\ \E fetched \in BOOLEAN, new_slug \in Slugs \cup {NoSlug} :
          IF fetched /\ new_slug # NoSlug /\ new_slug # current_slug
          THEN MangaChange("cycle", current_slug, new_slug, TRUE)
          ELSE /\ manga_log' = [phase |-> "cycle",
                                new_slug |-> IF fetched THEN new_slug ELSE NoSlug,
                                calls |-> <<>>, raised |-> FALSE]
               /\ UNCHANGED <<current_slug, manga_db, running>>
    /\ UNCHANGED <<today, ledgerVars, chatVars, last_club_hash, last_week_start,
                   is_initialized, cyc, parseVars, task, fetch, at, cardVars, answer, hashed, window, sched, race, txn, rowids, pm, book>>

MangaStop ==
    /\ running
    /\ running' = FALSE
    /\ current_slug' = NoSlug
    /\ manga_log' = NoMangaLog
    /\ UNCHANGED <<today, ledgerVars, chatVars, last_club_hash, last_week_start,
                   is_initialized, cyc, parseVars, task, fetch, at, cardVars,
                   manga_db, answer, hashed, window, sched, race, txn, rowids, pm, book>>

NextManga == MangaStart \/ MangaCycle \/ MangaStop

SpecManga == InitCommon /\ [][NextManga]_vars

(* --------------------------- ledger queries ---------------------------- *)
(* week_start is stored as the text of date.isoformat(), YYYY-MM-DD, and   *)
(* ORDER BY week_start compares that text.  Day 0 is Monday 2026-02-16; a  *)
(* text is the sequence of its zero-padded fields, compared field by       *)
(* field as the characters are.                                            *)
isoformat(d) == IF d <= 12 THEN <<2026, 2, 16 + d>> ELSE <<2026, 3, d - 12>>

TextLess(a, b) ==
    \E i \in 1..3 : a[i] < b[i] /\ \A j \in 1..(i - 1) : a[j] = b[j]

(* WHERE week_start = ? *)
WhereWeek_Any(tbl, week_start) == tbl

WhereWeek(tbl, week_start) == {r \in tbl : r.week_start = week_start}

(* ORDER BY contribution_current DESC: SQL leaves the order of rows with   *)
(* equal keys open, so the query has a set of possible results.            *)
RECURSIVE OrderByCurrentDesc(_)
OrderByCurrentDesc(rows) ==
    IF rows = {} THEN {<<>>}
    ELSE UNION {{<<r>> \o rest : rest \in OrderByCurrentDesc(rows \ {r})} :
                r \in {x \in rows : \A y \in rows :
                          x.contribution_current >= y.contribution_current}}

get_alliance_week_rows(tbl, week_start) ==
    OrderByCurrentDesc(WhereWeek(tbl, week_start))

(* ORDER BY contribution DESC *)
RECURSIVE OrderByContributionDesc(_)
OrderByContributionDesc(rows) ==
    IF rows = {} THEN {<<>>}
    ELSE UNION {{<<r>> \o rest : rest \in OrderByContributionDesc(rows \ {r})} :
                r \in {x \in rows : \A y \in rows :
                          x.contribution >= y.contribution}}

get_week_contributions_from_db(tbl, week_start) ==
    OrderByContributionDesc(WhereWeek(tbl, week_start))

(* SELECT DISTINCT week_start ... ORDER BY week_start DESC *)
NotBefore_Asc(a, b) == ~TextLess(isoformat(b), isoformat(a))

NotBefore(a, b) == ~TextLess(isoformat(a), isoformat(b))

RECURSIVE OrderByWeekDesc(_)
OrderByWeekDesc(weeks) ==
    IF weeks = {} THEN <<>>
    ELSE LET w == CHOOSE x \in weeks : \A y \in weeks : NotBefore(x, y)
         IN <<w>> \o OrderByWeekDesc(weeks \ {w})

get_alliance_available_weeks(tbl) == OrderByWeekDesc({r.week_start : r \in tbl})

get_available_weeks(tbl) == OrderByWeekDesc({r.week_start : r \in tbl})

QueryAllianceWeekRows ==
    \E w \in WeekStarts : \E rows \in get_alliance_week_rows(ledger, w) :
        /\ answer' = [op |-> "get_alliance_week_rows", week_start |-> w,
                      rows |-> rows, weeks |-> <<>>]
        /\ UNCHANGED <<today, ledgerVars, chatVars, allianceVars, cyc, parseVars,
                       task, fetch, at, cardVars, mangaVars, hashed, window, sched, race, txn, rowids, pm, book>>

QueryWeekContributions ==
    \E w \in WeekStarts : \E rows \in get_week_contributions_from_db(weekly, w) :
        /\ answer' = [op |-> "get_week_contributions_from_db", week_start |-> w,
                      rows |-> rows, weeks |-> <<>>]
        /\ UNCHANGED <<today, ledgerVars, chatVars, allianceVars, cyc, parseVars,
                       task, fetch, at, cardVars, mangaVars, hashed, window, sched, race, txn, rowids, pm, book>>

QueryAllianceAvailableWeeks ==
    /\ answer' = [op |-> "get_alliance_available_weeks", week_start |-> -1,
                  rows |-> <<>>, weeks |-> get_alliance_available_weeks(ledger)]
    /\ UNCHANGED <<today, ledgerVars, chatVars, allianceVars, cyc, parseVars,
                   task, fetch, at, cardVars, mangaVars, hashed, window, sched, race, txn, rowids, pm, book>>

QueryAvailableWeeks ==
    /\ answer' = [op |-> "get_available_weeks", week_start |-> -1,
                  rows |-> <<>>, weeks |-> get_available_weeks(weekly)]
    /\ UNCHANGED <<today, ledgerVars, chatVars, allianceVars, cyc, parseVars,
                   task, fetch, at, cardVars, mangaVars, hashed, window, sched, race, txn, rowids, pm, book>>

(* id INTEGER PRIMARY KEY AUTOINCREMENT: a row gets the next id when it is *)
(* inserted and keeps it when ON CONFLICT ... DO UPDATE changes it; no row *)
(* is ever deleted.                                                        *)
RECURSIVE InsertedIds(_, _, _, _)
InsertedIds(ids, table, week_start, contributions) ==
    IF contributions = <<>> THEN ids
    ELSE LET c == Head(contributions)
             known == \E x \in ids : /\ x.table = table
                                     /\ x.week_start = week_start
                                     /\ x.mangabuff_id = c.mangabuff_id
             next == Cardinality({x \in ids : x.table = table}) + 1
         IN InsertedIds(IF known THEN ids
                        ELSE ids \cup {[table |-> table, week_start |-> week_start,
                                        mangabuff_id |-> c.mangabuff_id,
                                        id |-> next]},
                        table, week_start, Tail(contributions))

(* A write of a ledger between two queries: the answer of the earlier     *)
(* query is dropped with it.                                               *)
UpsertBeforeQuery ==
    \E w \in WeekStarts, cs \in RecordLists, nw \in BOOLEAN :
        /\ ledger' = upsert_alliance_contributions(ledger, w, cs, nw)
        /\ nicks' = upsert_alliance_nicks(nicks, w, cs)
        /\ rowids' = InsertedIds(rowids, "alliance", w, cs)
        /\ answer' = NoAnswer
        /\ UNCHANGED <<today, weekly, call, chatVars, allianceVars, cyc, parseVars,
                       task, fetch, at, cardVars, mangaVars, hashed, window, sched, race, txn, pm, book>>

SaveBeforeQuery ==
    \E w \in WeekStarts, cs \in RecordLists :
        /\ weekly' = save_weekly_contributions(weekly, w, cs)
        /\ rowids' = InsertedIds(rowids, "club", w, cs)
        /\ answer' = NoAnswer
        /\ UNCHANGED <<today, ledger, nicks, call, chatVars, allianceVars, cyc, parseVars,
                       task, fetch, at, cardVars, mangaVars, hashed, window, sched, race, txn, pm, book>>

(* The two ledgers are separate tables; a behaviour of SpecQueries writes  *)
(* and queries one of them.                                                *)
NextQueries ==
    \/ task = "alliance" /\ (UpsertBeforeQuery \/ QueryAllianceWeekRows
                                \/ QueryAllianceAvailableWeeks)
    \/ task = "club" /\ (SaveBeforeQuery \/ QueryWeekContributions
                            \/ QueryAvailableWeeks)

SpecQueries == InitLoops /\ [][NextQueries]_vars

(* ====================== the change hasher, called ====================== *)
(* Records whose decimal texts run into each other when nothing separates  *)
(* them: 1 and 21 read "121", and so do 12 and 1.                          *)
HashedIds == {1, 12}

HashedContributions == {1, 21}

HashedRecords ==
    [mangabuff_id : HashedIds, nick : Nicks, contribution : HashedContributions]

HashedLists ==
    UNION {[1..n -> HashedRecords] : n \in 0..MaxRecords}

(* The two record lists are drawn at the start and fingerprinted once. *)
InitHash ==
    /\ InitState
    /\ pm = MainProxyManager
    /\ task = "none"
    /\ window = NoWindow
    /\ hashed \in {[NoHashed EXCEPT !.a = a, !.b = b] :
                       a \in HashedLists, b \in HashedLists}

HashAlliance ==
    /\ hashed.op = "none"
    /\ hashed' = [hashed EXCEPT !.op = "compute_alliance_hash",
                                !.hash_a = compute_alliance_hash(hashed.a),
                                !.hash_b = compute_alliance_hash(hashed.b)]
    /\ UNCHANGED <<today, ledgerVars, chatVars, allianceVars, cyc, parseVars,
                   task, fetch, at, cardVars, mangaVars, answer, window, sched, race, txn, rowids, pm, book>>

HashStats ==
    /\ hashed.op = "none"
    /\ hashed' = [hashed EXCEPT !.op = "compute_stats_hash",
                                !.hash_a = compute_stats_hash(hashed.a),
                                !.hash_b = compute_stats_hash(hashed.b)]
    /\ UNCHANGED <<today, ledgerVars, chatVars, allianceVars, cyc, parseVars,
                   task, fetch, at, cardVars, mangaVars, answer, window, sched, race, txn, rowids, pm, book>>

NextHash == HashAlliance \/ HashStats

SpecHash == InitHash /\ [][NextHash]_vars

(* ===================== the week functions, on dates ==================== *)
(* A date is <<year, month, day>>.  date - timedelta, date + timedelta and *)
(* date.weekday() work on the proleptic Gregorian ordinal of the date, on  *)
(* which 0001-01-01 is day 1 and a Monday.                                 *)
Years == 2026..2028

is_leap(y) == y % 4 = 0 /\ (y % 100 # 0 \/ y % 400 = 0)

days_in_month(y, m) ==
    IF m = 2 THEN (IF is_leap(y) THEN 29 ELSE 28)
    ELSE IF m \in {4, 6, 9, 11} THEN 30 ELSE 31

days_before_year(y) ==
    (y - 1) * 365 + (y - 1) \div 4 - (y - 1) \div 100 + (y - 1) \div 400

RECURSIVE days_before_month(_, _)
days_before_month(y, m) ==
    IF m = 1 THEN 0
    ELSE days_before_month(y, m - 1) + days_in_month(y, m - 1)

toordinal(date) ==
    days_before_year(date[1]) + days_before_month(date[1], date[2]) + date[3]

Calendar ==
    {<<y, m, d>> : y \in Years, m \in 1..12, d \in 1..31}

Dates == {date \in Calendar : date[3] <= days_in_month(date[1], date[2])}

fromordinal(n) == CHOOSE date \in Dates : toordinal(date) = n

date_weekday_SundayFirst(date) == toordinal(date) % 7

date_weekday(date) == (toordinal(date) + 6) % 7

minus_timedelta(date, days) == fromordinal(toordinal(date) - days)

plus_timedelta(date, days) == fromordinal(toordinal(date) + days)

Pad2(n) == IF n < 10 THEN "0" \o ToString(n) ELSE ToString(n)

(* date.isoformat(): YYYY-MM-DD *)
date_isoformat(date) ==
    ToString(date[1]) \o "-" \o Pad2(date[2]) \o "-" \o Pad2(date[3])

(* datetime.strptime(text, "%Y-%m-%d").date() *)
strptime(text) == CHOOSE date \in Dates : date_isoformat(date) = text

(* get_alliance_week_start and get_alliance_week_end on dates and texts *)
alliance_week_start_text(dt) ==
    LET monday == minus_timedelta(dt, date_weekday(dt))
    IN date_isoformat(monday)

alliance_week_end_text(week_start) ==
    LET monday == strptime(week_start)
    IN date_isoformat(plus_timedelta(monday, 6))

(* get_week_start and get_week_end on dates and texts *)
club_week_start_text(dt) ==
    LET monday == minus_timedelta(dt, date_weekday(dt))
    IN date_isoformat(monday)

club_week_end_text(week_start) ==
    LET monday == strptime(week_start)
    IN date_isoformat(plus_timedelta(monday, 6))

(* The dates given to the functions: the days around the turn of the year  *)
(* 2026/2027 and around the end of February of a leap year.                *)
MaxSpan == 20

WindowAnchors == {<<2026, 12, 21>>, <<2028, 2, 21>>}

WindowDates ==
    {plus_timedelta(a, k) : a \in WindowAnchors, k \in 0..MaxSpan}

InitWeek ==
    /\ InitState
    /\ pm = MainProxyManager
    /\ task = "none"
    /\ hashed = NoHashed
    /\ window \in {[NoWindow EXCEPT !.t1 = t1, !.t2 = t2] :
                       t1 \in WindowDates, t2 \in WindowDates}

AllianceWeekOf ==
    /\ window.op = "none"
    /\ window' = [window EXCEPT !.op = "alliance_weekly_stats",
                                !.start1 = alliance_week_start_text(window.t1),
                                !.start2 = alliance_week_start_text(window.t2),
                                !.end1 = alliance_week_end_text(alliance_week_start_text(window.t1))]
    /\ UNCHANGED <<today, ledgerVars, chatVars, allianceVars, cyc, parseVars,
                   task, fetch, at, cardVars, mangaVars, answer, hashed, sched, race, txn, rowids, pm, book>>

ClubWeekOf ==
    /\ window.op = "none"
    /\ window' = [window EXCEPT !.op = "weekly_stats",
                                !.start1 = club_week_start_text(window.t1),
                                !.start2 = club_week_start_text(window.t2),
                                !.end1 = club_week_end_text(club_week_start_text(window.t1))]
    /\ UNCHANGED <<today, ledgerVars, chatVars, allianceVars, cyc, parseVars,
                   task, fetch, at, cardVars, mangaVars, answer, hashed, sched, race, txn, rowids, pm, book>>

NextWeek == AllianceWeekOf \/ ClubWeekOf

SpecWeek == InitWeek /\ [][NextWeek]_vars

(* ===================== the loops on the event loop ===================== *)
(* The page fetches of parse_loop, by the point at which the loop waits    *)
(* for them, and those of alliance_monitor_loop.                           *)
ParseFetches == {"parse", "fetch_weekly_ajax", "get_card_name",
                 "get_owners_nicknames"}

AllianceFetches == {"fetch_page", "get_manga_details"}

Resume(task_name, point) ==
    [sched EXCEPT ![task_name] = point, !.thread = "idle", !.handled = FALSE]

(* data = parser.parse(): called in the coroutine, session.get runs on the  *)
(* thread of the event loop.                                               *)
ParseCalled ==
    /\ sched.thread = "idle" /\ sched.parse = "sleep"
    /\ sched' = [sched EXCEPT !.parse = "parse", !.thread = "parse_loop",
                              !.handled = FALSE]
    /\ UNCHANGED <<today, ledgerVars, chatVars, allianceVars, cyc, parseVars,
                   task, fetch, at, cardVars, mangaVars, answer, hashed, window, race, txn, rowids, pm, book>>

AfterWeekly(card_changed) ==
    IF card_changed THEN "get_card_name" ELSE "sleep"

ParseReturned ==
    /\ sched.parse = "parse"
    /\ \E data \in BOOLEAN, card_changed \in BOOLEAN :
          LET counter1 == weekly_check_counter + 1
          IN IF ~data
             THEN /\ sched' = Resume("parse", "sleep")
                  /\ UNCHANGED weekly_check_counter
             ELSE IF counter1 >= WEEKLY_CHECK_EVERY
             THEN /\ weekly_check_counter' = 0
                  /\ sched' = Resume("parse", "fetch_weekly_ajax")
             ELSE /\ weekly_check_counter' = counter1
                  /\ sched' = Resume("parse", AfterWeekly(card_changed))
    /\ UNCHANGED <<today, ledgerVars, chatVars, allianceVars, cyc, parsing,
                   last_weekly_hash, weekly_last_week_start,
                   consecutive_failures, failed_fetches,
                   task, fetch, at, cardVars, mangaVars, answer, hashed, window, race, txn, rowids, pm, book>>

WeeklyAjaxDone ==
    /\ sched.thread = "idle" /\ sched.parse = "fetch_weekly_ajax"
    /\ \E card_changed \in BOOLEAN :
          sched' = Resume("parse", AfterWeekly(card_changed))
    /\ UNCHANGED <<today, ledgerVars, chatVars, allianceVars, cyc, parseVars,
                   task, fetch, at, cardVars, mangaVars, answer, hashed, window, race, txn, rowids, pm, book>>

CardNameDone ==
    /\ sched.thread = "idle" /\ sched.parse = "get_card_name"
    /\ \E club_owners \in BOOLEAN :
          sched' = Resume("parse", IF club_owners THEN "get_owners_nicknames"
                                   ELSE "sleep")
    /\ UNCHANGED <<today, ledgerVars, chatVars, allianceVars, cyc, parseVars,
                   task, fetch, at, cardVars, mangaVars, answer, hashed, window, race, txn, rowids, pm, book>>

OwnersDone ==
    /\ sched.thread = "idle" /\ sched.parse = "get_owners_nicknames"
    /\ sched' = Resume("parse", "sleep")
    /\ UNCHANGED <<today, ledgerVars, chatVars, allianceVars, cyc, parseVars,
                   task, fetch, at, cardVars, mangaVars, answer, hashed, window, race, txn, rowids, pm, book>>

(* html = await loop.run_in_executor(None, parser.fetch_page) *)
FetchPageDispatched ==
    /\ sched.thread = "idle" /\ sched.alliance = "sleep"
    /\ sched' = Resume("alliance", "fetch_page")
    /\ UNCHANGED <<today, ledgerVars, chatVars, allianceVars, cyc, parseVars,
                   task, fetch, at, cardVars, mangaVars, answer, hashed, window, race, txn, rowids, pm, book>>

FetchPageDone ==
    /\ sched.thread = "idle" /\ sched.alliance = "fetch_page"
    /\ \E slug_changed \in BOOLEAN :
          sched' = Resume("alliance", IF slug_changed THEN "get_manga_details"
                                      ELSE "sleep")
    /\ UNCHANGED <<today, ledgerVars, chatVars, allianceVars, cyc, parseVars,
                   task, fetch, at, cardVars, mangaVars, answer, hashed, window, race, txn, rowids, pm, book>>

MangaDetailsDone ==
    /\ sched.thread = "idle" /\ sched.alliance = "get_manga_details"
    /\ sched' = Resume("alliance", "sleep")
    /\ UNCHANGED <<today, ledgerVars, chatVars, allianceVars, cyc, parseVars,
                   task, fetch, at, cardVars, mangaVars, answer, hashed, window, race, txn, rowids, pm, book>>

(* A handler of the bot runs when the event loop gives it the thread. *)
HandleUpdate ==
    /\ sched.thread = "idle"
    /\ sched' = [sched EXCEPT !.handled = TRUE]
    /\ UNCHANGED <<today, ledgerVars, chatVars, allianceVars, cyc, parseVars,
                   task, fetch, at, cardVars, mangaVars, answer, hashed, window, race, txn, rowids, pm, book>>

NextThreads ==
    \/ ParseCalled \/ ParseReturned \/ WeeklyAjaxDone \/ CardNameDone
    \/ OwnersDone \/ FetchPageDispatched \/ FetchPageDone \/ MangaDetailsDone
    \/ HandleUpdate

SpecThreads == InitCommon /\ [][NextThreads]_vars

(* ============ the reconciler, await by await, called twice ============= *)
(* A refresh command and a loop call the reconciler of one metric for the  *)
(* same chat; each call is suspended at its awaits (the read of the        *)
(* record, edit_message_text, send_message, pin_chat_message, the save of  *)
(* the record) and the event loop may run the other call in between.       *)
Callers == {"loop", "admin"}

RecordTable(m) == IF m = "alliance" THEN pinnedA ELSE pinnedW

WriteRecordTable(m, tbl) ==
    IF m = "alliance"
    THEN pinnedA' = tbl /\ UNCHANGED pinnedW
    ELSE pinnedW' = tbl /\ UNCHANGED pinnedA

ReadRecord(m, week_start) ==
    IF m = "alliance"
    THEN AllianceRecordForWeek(
             get_pinned_alliance_message(pinnedA, REQUIRED_TG_GROUP_ID), week_start)
    ELSE WeeklyRecordForWeek(
             get_pinned_message_info(pinnedW, REQUIRED_TG_GROUP_ID), week_start)

SavedRecord(m, message_id, week_start) ==
    IF m = "alliance"
    THEN save_pinned_alliance_message(pinnedA, REQUIRED_TG_GROUP_ID,
                                      message_id, week_start)
    ELSE save_pinned_message_info(pinnedW, REQUIRED_TG_GROUP_ID,
                                  message_id, week_start)

ClearedRecord(m) ==
    IF m = "alliance"
    THEN clear_pinned_alliance_message(pinnedA, REQUIRED_TG_GROUP_ID)
    ELSE clear_pinned_message_info(pinnedW, REQUIRED_TG_GROUP_ID)

OnEditError(m, err) ==
    IF m = "alliance" THEN AllianceOnEditError(err) ELSE WeeklyOnEditError(err)

OnPinError(m, err) ==
    IF m = "alliance" THEN AllianceOnPinError(err) ELSE WeeklyOnPinError(err)

At(p, pc) == [race EXCEPT ![p].pc = pc]

raceFrame == <<today, ledgerVars, rc, streak, allianceVars, cyc, parseVars,
               task, fetch, at, cardVars, mangaVars, answer, hashed, window,
               sched, txn, rowids, pm,
    book>>

(* Calls made before the two that interleave. *)
EarlierReconcile ==
    /\ race.metric = "none"
    /\ ReconcileAlliance \/ ReconcileWeekly

(* The loop reaches its call of the reconciler while the command is at its *)
(* first await; had is the record of the chat at that time.                *)
BothCalled ==
    /\ race.metric = "none"
    /\ \E m \in Metrics :
          race' = [NoRace EXCEPT
                      !.metric = m,
                      !.week_start = IF m = "alliance"
                                     THEN get_alliance_week_start(today)
                                     ELSE get_week_start(today),
                      !.had = IF m = "alliance"
                              THEN get_pinned_alliance_message(
                                       pinnedA, REQUIRED_TG_GROUP_ID)
                              ELSE get_pinned_message_info(
                                       pinnedW, REQUIRED_TG_GROUP_ID),
                      !.loop = [NotCalled EXCEPT !.pc = "read"],
                      !.admin = [NotCalled EXCEPT !.pc = "clear"]]
    /\ UNCHANGED <<raceFrame, pinnedA, pinnedW, live, nextId>>

(* The loop has committed the rows of the week before it calls the         *)
(* reconciler, so the command finds rows and goes on to its own call.      *)
AdminClears ==
    /\ race.admin.pc = "clear"
    /\ WriteRecordTable(race.metric, ClearedRecord(race.metric))
    /\ race' = At("admin", "read")
    /\ UNCHANGED <<raceFrame, live, nextId>>

ReadsRecord(p) ==
    /\ race[p].pc = "read"
    /\ LET pinned_info == ReadRecord(race.metric, race.week_start)
       IN race' = [race EXCEPT ![p].stored = pinned_info,
                               ![p].pc = IF pinned_info # NoRow THEN "edit"
                                         ELSE "send"]
    /\ UNCHANGED <<raceFrame, pinnedA, pinnedW, live, nextId>>

EditsMessage(p) ==
    /\ race[p].pc = "edit"
    /\ \E e \in EditOutcomes(live, race[p].stored.message_id) :
          race' = At(p, IF e = "ok" THEN "save_edited"
                        ELSE IF OnEditError(race.metric, e) = "send new"
                        THEN "send" ELSE "done")
    /\ UNCHANGED <<raceFrame, pinnedA, pinnedW, live, nextId>>

SavesEdited(p) ==
    /\ race[p].pc = "save_edited"
    /\ WriteRecordTable(race.metric,
                        SavedRecord(race.metric, race[p].stored.message_id,
                                    race.week_start))
    /\ race' = At(p, "done")
    /\ UNCHANGED <<raceFrame, live, nextId>>

SendsMessage(p) ==
    /\ race[p].pc = "send"
    /\ \E s \in SendOutcomes(nextId) :
          IF s = "ok"
          THEN /\ live' = live \cup {nextId}
               /\ nextId' = nextId + 1
               /\ race' = [race EXCEPT ![p].message_id = nextId,
                                       ![p].pc = "pin",
                                       !.sent = Append(@, nextId)]
          ELSE /\ race' = At(p, "done")
               /\ UNCHANGED <<live, nextId>>
    /\ UNCHANGED <<raceFrame, pinnedA, pinnedW>>

PinsMessage(p) ==
    /\ race[p].pc = "pin"
    /\ \E o \in PinOutcomes :
          race' = At(p, IF o = "ok" \/ OnPinError(race.metric, o) = "continue"
                        THEN "save_sent" ELSE "done")
    /\ UNCHANGED <<raceFrame, pinnedA, pinnedW, live, nextId>>

SavesSent(p) ==
    /\ race[p].pc = "save_sent"
    /\ WriteRecordTable(race.metric,
                        SavedRecord(race.metric, race[p].message_id,
                                    race.week_start))
    /\ race' = At(p, "done")
    /\ UNCHANGED <<raceFrame, live, nextId>>

NextRace ==
    \/ EarlierReconcile
    \/ BothCalled
    \/ AdminClears
    \/ \E p \in Callers : ReadsRecord(p)
    \/ \E p \in Callers : EditsMessage(p)
    \/ \E p \in Callers : SavesEdited(p)
    \/ \E p \in Callers : SendsMessage(p)
    \/ \E p \in Callers : PinsMessage(p)
    \/ \E p \in Callers : SavesSent(p)

SpecRace == InitCommon /\ [][NextRace]_vars

(* ==================== ledger calls that fail midway ==================== *)
(* Both ledger functions open a connection, execute one INSERT ... ON      *)
(* CONFLICT per record inside the transaction sqlite3 opens at the first   *)
(* of them, and commit after the last.  A statement, or the commit, that   *)
(* raises leaves the `async with` block: the connection is closed and what *)
(* it had not committed is rolled back.                                    *)
OnClose_Commits(committed, pending) == pending

OnClose(committed, pending) == committed

ExecutedUpserts(tbl, week_start, contributions, is_new_week, n) ==
    upsert_alliance_contributions(tbl, week_start, SubSeq(contributions, 1, n),
                                  is_new_week)

ExecutedNicks(col, week_start, contributions, n) ==
    upsert_alliance_nicks(col, week_start, SubSeq(contributions, 1, n))

ExecutedSaves(tbl, week_start, contributions, n) ==
    save_weekly_contributions(tbl, week_start, SubSeq(contributions, 1, n))

(* The ledger a failing call finds is the one the first call on an empty   *)
(* table committed.                                                        *)
CommittedUpsert ==
    \E w \in WeekStarts, cs \in RecordLists, nw \in BOOLEAN :
        /\ ledger = {}
        /\ ledger' = upsert_alliance_contributions(ledger, w, cs, nw)
        /\ nicks' = upsert_alliance_nicks(nicks, w, cs)
        /\ txn' = NoTxn
        /\ UNCHANGED <<today, weekly, call, chatVars, allianceVars, cyc, parseVars,
                       task, fetch, at, cardVars, mangaVars, answer, hashed,
                       window, sched, race, rowids, pm, book>>

FailedUpsert ==
    \E w \in WeekStarts, cs \in RecordLists, nw \in BOOLEAN :
        \E failed_at \in 1..(Len(cs) + 1) :
            LET pending == ExecutedUpserts(ledger, w, cs, nw, failed_at - 1)
                pendingNicks == ExecutedNicks(nicks, w, cs, failed_at - 1)
            IN /\ ledger' = OnClose(ledger, pending)
               /\ nicks' = OnClose(nicks, pendingNicks)
               /\ txn' = [op |-> "upsert_alliance_contributions",
                          week_start |-> w, contributions |-> cs,
                          is_new_week |-> nw, failed_at |-> failed_at,
                          pending |-> pending]
               /\ UNCHANGED <<today, weekly, call, chatVars, allianceVars, cyc,
                              parseVars, task, fetch, at, cardVars, mangaVars,
                              answer, hashed, window, sched, race, rowids, pm, book>>

CommittedSave ==
    \E w \in WeekStarts, cs \in RecordLists :
        /\ weekly = {}
        /\ weekly' = save_weekly_contributions(weekly, w, cs)
        /\ txn' = NoTxn
        /\ UNCHANGED <<today, ledger, nicks, call, chatVars, allianceVars, cyc,
                       parseVars, task, fetch, at, cardVars, mangaVars, answer,
                       hashed, window, sched, race, rowids, pm, book>>

FailedSave ==
    \E w \in WeekStarts, cs \in RecordLists :
        \E failed_at \in 1..(Len(cs) + 1) :
            LET pending == ExecutedSaves(weekly, w, cs, failed_at - 1)
            IN /\ weekly' = OnClose(weekly, pending)
               /\ txn' = [op |-> "save_weekly_contributions",
                          week_start |-> w, contributions |-> cs,
                          is_new_week |-> FALSE, failed_at |-> failed_at,
                          pending |-> pending]
               /\ UNCHANGED <<today, ledger, nicks, call, chatVars, allianceVars,
                              cyc, parseVars, task, fetch, at, cardVars,
                              mangaVars, answer, hashed, window, sched, race, rowids, pm, book>>

(* The two ledgers are separate tables; a behaviour of SpecBatch writes    *)
(* one of them.                                                            *)
NextBatch ==
    \/ task = "alliance" /\ (CommittedUpsert \/ FailedUpsert)
    \/ task = "club" /\ (CommittedSave \/ FailedSave)

SpecBatch == InitLoops /\ [][NextBatch]_vars

(* ============================ the proxy manager ======================== *)
(* The methods of ProxyManager, on the fields of the object.               *)
rotate(self) ==
    [self EXCEPT !.failed_proxies = IF self.current_proxy # NoProxy
                                    THEN @ \cup {self.current_proxy}
                                    ELSE @,
                 !.current_proxy = NoProxy,
                 !.consecutive_failures = 0]

mark_success(self) == [self EXCEPT !.consecutive_failures = 0]

mark_failure(self) == [self EXCEPT !.consecutive_failures = @ + 1]

clear_failed(self) ==
    [self EXCEPT !.failed_proxies = {}, !.consecutive_failures = 0]

(* What one attempt of the search meets: FreeProxy(...).get() raises or    *)
(* hands out a proxy, and the test request through the proxy answers 200   *)
(* or does not.                                                            *)
Attempts == [proxy : Proxies, raised : BOOLEAN, works : BOOLEAN]

AlreadyFailed_Never(proxy, failed_proxies) == FALSE

AlreadyFailed(proxy, failed_proxies) == proxy \in failed_proxies

RECURSIVE find_working_proxy(_, _, _)
find_working_proxy(self, found, attempt) ==
    IF attempt > max_attempts
    THEN [self |-> self, result |-> NoProxies]
    ELSE LET proxy == found[attempt].proxy
         IN IF found[attempt].raised
            THEN find_working_proxy(self, found, attempt + 1)
            ELSE IF AlreadyFailed(proxy, self.failed_proxies)
            THEN find_working_proxy(self, found, attempt + 1)
            ELSE IF found[attempt].works
            THEN [self |-> [self EXCEPT !.current_proxy = proxy,
                                        !.consecutive_failures = 0],
                  result |-> format_proxy(proxy)]
            ELSE find_working_proxy(
                     [self EXCEPT !.failed_proxies = @ \cup {proxy}],
                     found, attempt + 1)

get_proxies(self, found) ==
    IF ~self.enabled
    THEN [self |-> self, result |-> NoProxies]
    ELSE LET forced == self.consecutive_failures >= proxy_max_consecutive_failures
             rotated == IF forced
                        THEN [rotate(self) EXCEPT !.consecutive_failures = 0]
                        ELSE self
         IN IF rotated.current_proxy # NoProxy
            THEN [self |-> rotated, result |-> format_proxy(rotated.current_proxy)]
            ELSE find_working_proxy(rotated, found, 1)

(* The proxies a call of rotate on the object takes out of use.            *)
DiscardedBy(self) ==
    IF self.current_proxy # NoProxy THEN {self.current_proxy} ELSE {}

proxyFrame == <<today, ledgerVars, chatVars, allianceVars, cyc, parseVars, task,
                fetch, at, cardVars, mangaVars, answer, hashed, window, sched,
                race, txn, rowids,
    book>>

InitProxy ==
    /\ InitState
    /\ task = "none"
    /\ hashed = NoHashed
    /\ window = NoWindow
    /\ pm \in {NewProxyManager(enabled) : enabled \in BOOLEAN}

GetProxies ==
    \E found \in [1..max_attempts -> Attempts] :
        LET got == get_proxies(pm.self, found)
            forced == /\ pm.self.enabled
                      /\ pm.self.consecutive_failures
                             >= proxy_max_consecutive_failures
        IN /\ pm' = [self |-> got.self, op |-> "get_proxies",
                     returned |-> got.result,
                     discarded |-> IF forced
                                   THEN pm.discarded \cup DiscardedBy(pm.self)
                                   ELSE pm.discarded]
           /\ UNCHANGED proxyFrame

Rotate ==
    /\ pm' = [pm EXCEPT !.self = rotate(pm.self), !.op = "rotate",
                        !.discarded = @ \cup DiscardedBy(pm.self)]
    /\ UNCHANGED proxyFrame

MarkSuccess ==
    /\ pm' = [pm EXCEPT !.self = mark_success(pm.self), !.op = "mark_success"]
    /\ UNCHANGED proxyFrame

MarkFailure ==
    /\ pm.self.consecutive_failures < MaxProxyFailures
    /\ pm' = [pm EXCEPT !.self = mark_failure(pm.self), !.op = "mark_failure"]
    /\ UNCHANGED proxyFrame

ClearFailed ==
    /\ pm' = [pm EXCEPT !.self = clear_failed(pm.self), !.op = "clear_failed",
                        !.discarded = {}]
    /\ UNCHANGED proxyFrame

NextProxy == GetProxies \/ Rotate \/ MarkSuccess \/ MarkFailure \/ ClearFailed

SpecProxy == InitProxy /\ [][NextProxy]_vars

(* ============================ the booking flows ======================== *)
(* The application takes one update at a time: it is built without         *)
(* concurrent_updates and every handler is registered blocking, so the     *)
(* handler of an update is awaited to its end before the next update is    *)
(* taken. The conversations of two users still interleave, update by       *)
(* update.                                                                 *)
NoHandlerRunning == book.running = "none"

(* The two rows of a date that share some time.                            *)
Overlap(a, b) ==
    /\ a.date = b.date
    /\ a.start_time < b.end_time
    /\ b.start_time < a.end_time

(* booking_validator.validate_booking_slot: the slot is a span of the day  *)
(* and no booking of the date shares time with it.                         *)
validate_booking_slot(bookings, date, start_time, end_time) ==
    /\ start_time < end_time
    /\ \A b \in bookings :
           ~Overlap(b, [date |-> date, start_time |-> start_time,
                        end_time |-> end_time])

(* database.create_booking: BookingConflictError when the user has a       *)
(* booking on the date, a new row otherwise.                               *)
BookingConflictError(bookings, tg_id, date) ==
    \E b \in bookings : b.tg_id = tg_id /\ b.date = date

create_booking(bookings, id, tg_id, date, start_time, end_time) ==
    bookings \cup {[id |-> id, tg_id |-> tg_id, date |-> date,
                    start_time |-> start_time, end_time |-> end_time]}

(* `if not is_valid:` of the two last handlers.                            *)
SlotRefused_Never(is_valid) == FALSE

SlotRefused(is_valid) == ~is_valid

bookFrame == <<today, ledgerVars, chatVars, allianceVars, cyc, parseVars, task,
               fetch, at, cardVars, mangaVars, answer, hashed, window, sched,
               race, txn, rowids, pm>>

Flow(f) == book.flows[f]

Step(f, flow, handler) ==
    /\ book' = [book EXCEPT !.flows[f] = flow, !.running = handler]
    /\ UNCHANGED bookFrame

(* start_booking_flow and receive_date, show_booking_menu and              *)
(* handle_date_selection: a verified user asks for a booking and picks     *)
(* today or tomorrow.                                                      *)
StartFlow(f) ==
    /\ NoHandlerRunning
    /\ Flow(f).pc = "idle"
    /\ \E tg_id \in BookingUsers, date \in {today, today + 1} :
           Step(f, [NoFlow EXCEPT !.pc = "STEP_START_TIME", !.tg_id = tg_id,
                                  !.date = date], "none")

(* receive_start_time, handle_start_time_selection: the text or the button *)
(* names a start; the list of ends offered is read from the table now.     *)
ReceiveStartTime(f) ==
    /\ NoHandlerRunning
    /\ Flow(f).pc = "STEP_START_TIME"
    /\ \E start_time \in Times :
           Step(f, [Flow(f) EXCEPT !.pc = "STEP_END_TIME",
                                   !.start_time = start_time], "none")

(* receive_end_time up to its first await: Отмена, Назад, a text without   *)
(* a colon, or an end time, which goes to the final validation.            *)
ReceiveEndTime ==
    /\ NoHandlerRunning
    /\ Flow("private").pc = "STEP_END_TIME"
    /\ \/ \E text \in {"cancel", "malformed"} :
              Step("private", [Flow("private") EXCEPT !.pc = "reply",
                                                      !.outcome = text],
                   "private")
       \/ Step("private", [Flow("private") EXCEPT !.pc = "reply",
                                                  !.start_time = -1,
                                                  !.outcome = "back"],
               "private")
       \/ \E end_time \in Times :
              Step("private", [Flow("private") EXCEPT !.pc = "validate",
                                                      !.end_time = end_time],
                   "private")

(* handle_end_time_selection up to its first await, query.answer: the      *)
(* button carries the date, the start and the end.                         *)
HandleEndTimeSelection ==
    /\ NoHandlerRunning
    /\ Flow("group").pc = "STEP_END_TIME"
    /\ \E end_time \in Times :
           Step("group", [Flow("group") EXCEPT !.pc = "answer",
                                               !.end_time = end_time],
                "group")

(* query.answer returned; get_verified_user is awaited.                    *)
QueryAnswered ==
    /\ book.running = "group"
    /\ Flow("group").pc = "answer"
    /\ Step("group", [Flow("group") EXCEPT !.pc = "get_verified_user"], "group")

(* get_verified_user returned the user or None.                            *)
GotVerifiedUser ==
    /\ book.running = "group"
    /\ Flow("group").pc = "get_verified_user"
    /\ \E verified \in BOOLEAN :
           IF verified
           THEN Step("group", [Flow("group") EXCEPT !.pc = "validate"], "group")
           ELSE Step("group", [Flow("group") EXCEPT !.pc = "reply",
                                                    !.outcome = "unverified"],
                     "group")

(* The final validation returned.                                          *)
Validated(f) ==
    /\ book.running = f
    /\ Flow(f).pc = "validate"
    /\ LET is_valid == validate_booking_slot(book.bookings, Flow(f).date,
                                             Flow(f).start_time, Flow(f).end_time)
       IN IF SlotRefused(is_valid)
          THEN Step(f, [Flow(f) EXCEPT !.pc = "reply", !.outcome = "refused"], f)
          ELSE Step(f, [Flow(f) EXCEPT !.pc = "create_booking"], f)

(* create_booking returned the id of the new row or raised.                *)
Created(f) ==
    /\ book.running = f
    /\ Flow(f).pc = "create_booking"
    /\ IF BookingConflictError(book.bookings, Flow(f).tg_id, Flow(f).date)
       THEN Step(f, [Flow(f) EXCEPT !.pc = "reply", !.outcome = "conflict"], f)
       ELSE /\ book' = [book EXCEPT
                   !.bookings = create_booking(@, book.next_id, Flow(f).tg_id,
                                               Flow(f).date, Flow(f).start_time,
                                               Flow(f).end_time),
                   !.next_id = @ + 1,
                   !.flows[f] = [Flow(f) EXCEPT !.pc = "reply",
                                                !.outcome = "created"]]
            /\ UNCHANGED bookFrame

(* The last message of the handler is out and the handler returns: to the  *)
(* choice of a start after Назад, out of the conversation otherwise.       *)
Replied(f) ==
    /\ book.running = f
    /\ Flow(f).pc = "reply"
    /\ IF Flow(f).outcome = "back"
       THEN Step(f, [Flow(f) EXCEPT !.pc = "STEP_START_TIME",
                                    !.outcome = "none"], "none")
       ELSE Step(f, [Flow(f) EXCEPT !.pc = "END"], "none")

NextBooking ==
    \/ \E f \in Flows : StartFlow(f)
    \/ \E f \in Flows : ReceiveStartTime(f)
    \/ ReceiveEndTime
    \/ HandleEndTimeSelection
    \/ QueryAnswered
    \/ GotVerifiedUser
    \/ \E f \in Flows : Validated(f)
    \/ \E f \in Flows : Created(f)
    \/ \E f \in Flows : Replied(f)

SpecBooking == InitCommon /\ [][NextBooking]_vars

(* ======================= properties of the ledger ====================== *)
EntriesOf(tbl, week_start, id) ==
    {r \in tbl : r.week_start = week_start /\ r.mangabuff_id = id}

IsSingleUpsert(c) == c.op = "upsert" /\ Len(c.contributions) = 1

(* C2: an upsert of [E@a] for week W with is_new_week = TRUE followed by   *)
(* an upsert of [E@b] for W with is_new_week = FALSE leaves exactly one    *)
(* entry (W,E), with baseline a and current b, so its delta is b - a.      *)
C2_MidWeekGrowth ==
    [][(/\ IsSingleUpsert(call) /\ call.is_new_week
        /\ IsSingleUpsert(call') /\ ~call'.is_new_week
        /\ call'.week_start = call.week_start
        /\ call'.contributions[1].mangabuff_id = call.contributions[1].mangabuff_id)
       => LET a == call.contributions[1].contribution
              b == call'.contributions[1].contribution
              es == EntriesOf(ledger', call'.week_start,
                              call'.contributions[1].mangabuff_id)
          IN /\ es = {[week_start |-> call'.week_start,
                       mangabuff_id |-> call'.contributions[1].mangabuff_id,
                       contribution_baseline |-> a,
                       contribution_current |-> b]}
             /\ \A r \in es : Delta(r) = b - a]_vars

C2_Witness ==
    /\ IsSingleUpsert(call) /\ ~call.is_new_week /\ call.rolled
    /\ \E r \in EntriesOf(ledger, call.week_start, call.contributions[1].mangabuff_id) :
          /\ r.contribution_current = call.contributions[1].contribution
          /\ r.contribution_baseline # r.contribution_current
          /\ Delta(r) = 1

(* C3: after an upsert with is_new_week = FALSE, every entity of the list  *)
(* that had no entry for the week before the call has an entry whose       *)
(* baseline equals its current, a contribution observed for it.            *)
C3_MidWeekNewEntity ==
    (call.op = "upsert" /\ ~call.is_new_week)
    => \A i \in DOMAIN call.contributions :
          LET f == call.contributions[i].mangabuff_id
          IN f \notin call.had
             => \E r \in EntriesOf(ledger, call.week_start, f) :
                   /\ r.contribution_baseline = r.contribution_current
                   /\ \E j \in DOMAIN call.contributions :
                         /\ call.contributions[j].mangabuff_id = f
                         /\ call.contributions[j].contribution = r.contribution_current

(* C4: after an upsert with is_new_week = TRUE every entity of the list    *)
(* has exactly one entry for the week, whose baseline and current both     *)
(* equal the contribution of the entity's (last) record in the list,       *)
(* whether or not the entity had an entry before.                          *)
LastIndexOf(contributions, id) ==
    CHOOSE i \in DOMAIN contributions :
        /\ contributions[i].mangabuff_id = id
        /\ \A j \in DOMAIN contributions :
              contributions[j].mangabuff_id = id => j <= i

C4_NewWeekOverwrites ==
    (call.op = "upsert" /\ call.is_new_week)
    => \A i \in DOMAIN call.contributions :
          LET e == call.contributions[i].mangabuff_id
              v == call.contributions[LastIndexOf(call.contributions, e)].contribution
          IN EntriesOf(ledger, call.week_start, e)
               = {[week_start |-> call.week_start, mangabuff_id |-> e,
                   contribution_baseline |-> v, contribution_current |-> v]}

C4_Witness ==
    /\ call.op = "upsert" /\ call.is_new_week
    /\ \E i \in DOMAIN call.contributions :
          /\ call.contributions[i].mangabuff_id \in call.had
          /\ \E r \in EntriesOf(ledger, call.week_start,
                                call.contributions[i].mangabuff_id) :
                r.contribution_baseline = call.contributions[i].contribution

(* C5: an upsert for week W2 changes no row of any other week: the rows of *)
(* every week W1 # W2 are the same before and after the call.              *)
C5_OtherWeeksUntouched ==
    [][call'.op = "upsert"
       => \A w1 \in WeekStarts :
             w1 # call'.week_start => RowsOfWeek(ledger', w1) = RowsOfWeek(ledger, w1)]_vars

C5_Witness ==
    /\ call.op = "upsert" /\ call.is_new_week
    /\ \E r1, r2 \in ledger :
          /\ r1.week_start # call.week_start
          /\ r2.week_start = call.week_start
          /\ r1.mangabuff_id = r2.mangabuff_id
          /\ r2.contribution_baseline = r2.contribution_current
          /\ r1.contribution_current # r2.contribution_current

(* ===================== properties of the reconciler ==================== *)
Table(m) == IF m = "alliance" THEN pinnedA ELSE pinnedW

StoredRow(m) ==
    IF m = "alliance"
    THEN get_pinned_alliance_message(pinnedA, REQUIRED_TG_GROUP_ID)
    ELSE get_pinned_message_info(pinnedW, REQUIRED_TG_GROUP_ID)

RowsOfChat(m) == {r \in Table(m) : r.chat_id = REQUIRED_TG_GROUP_ID}

(* C6: over consecutive reconcile calls of a metric for the same week with *)
(* no deletion of its message in between, at most one message is sent in   *)
(* total; a call that finds the record of that week with its message still *)
(* in the chat sends nothing, edits exactly that message and keeps its id  *)
(* in the record; and once a call has sent or edited, exactly one record   *)
(* row of the chat exists.                                                 *)
C6_ReconcileIdempotent ==
    [][\A m \in Metrics :
          rc'.metric = m
          => /\ streak'[m].sends <= 1
             /\ Cardinality(RowsOfChat(m)') <= 1
             /\ (rc'.sent # <<>> \/ rc'.edit = "ok")
                   => Cardinality(RowsOfChat(m)') = 1
             /\ (/\ ~rc'.cleared
                 /\ StoredRow(m) # NoRow
                 /\ StoredRow(m).week_start = rc'.week_start
                 /\ StoredRow(m).message_id \in live)
                   => /\ rc'.sent = <<>>
                      /\ rc'.edited = <<StoredRow(m).message_id>>
                      /\ StoredRow(m)'.message_id = StoredRow(m).message_id]_vars

C6_Witness ==
    \E m \in Metrics :
        /\ rc.metric = m
        /\ streak[m].week_start = rc.week_start
        /\ streak[m].sends = 1
        /\ rc.sent = <<>>
        /\ rc.edit = "ok"
        /\ rc.edited = <<StoredRow(m).message_id>>
        /\ Cardinality(RowsOfChat(m)) = 1

(* C7: a reconcile call whose week_start differs from that of the record   *)
(* it finds issues no edit; it sends a message, and when the send succeeds *)
(* the record holds the id of the new message and the week of the call.    *)
C7_RolloverNeverEdits ==
    \A m \in Metrics :
        (rc.metric = m /\ rc.stored # NoRow /\ rc.stored.week_start # rc.week_start)
        => /\ rc.edited = <<>>
           /\ rc.edit = "none"
           /\ rc.send # "none"
           /\ rc.send = "ok"
                 => /\ Len(rc.sent) = 1
                    /\ rc.sent[1] # rc.stored.message_id
                    /\ RowsOfChat(m) = {[chat_id |-> REQUIRED_TG_GROUP_ID,
                                         message_id |-> rc.sent[1],
                                         week_start |-> rc.week_start]}

C7_Witness ==
    /\ rc.stored # NoRow
    /\ rc.stored.week_start # rc.week_start
    /\ rc.stored.message_id \in live
    /\ rc.send = "ok"
    /\ StoredRow(rc.metric).week_start = rc.week_start

(* C8: when the edit fails with 'message to edit not found' or             *)
(* 'message_id_invalid', the same call sends a message, and when the send  *)
(* succeeds the record points to the new message, for the same week.       *)
C8_DeletedMessageRecreated ==
    \A m \in Metrics :
        (rc.metric = m
         /\ rc.edit \in {"message to edit not found", "message_id_invalid"})
        => /\ rc.send # "none"
           /\ rc.week_start = rc.stored.week_start
           /\ rc.send = "ok"
                 => /\ Len(rc.sent) = 1
                    /\ rc.sent[1] # rc.stored.message_id
                    /\ RowsOfChat(m) = {[chat_id |-> REQUIRED_TG_GROUP_ID,
                                         message_id |-> rc.sent[1],
                                         week_start |-> rc.stored.week_start]}

C8_Witness ==
    /\ rc.edit \in {"message to edit not found", "message_id_invalid"}
    /\ rc.stored.message_id \notin live
    /\ rc.send = "ok"
    /\ StoredRow(rc.metric).message_id \in live

(* C9: when the edit fails with 'message is not modified', the call sends  *)
(* no message and leaves the record tables and the chat as they were.      *)
C9_NotModifiedIsNoOp ==
    [][rc'.edit = "message is not modified"
       => /\ rc'.send = "none"
          /\ rc'.sent = <<>>
          /\ nextId' = nextId
          /\ live' = live
          /\ pinnedA' = pinnedA
          /\ pinnedW' = pinnedW
          /\ \A m \in Metrics :
                rc'.metric = m => StoredRow(m)' = rc'.stored]_vars

C9_Witness ==
    /\ rc.edit = "message is not modified"
    /\ rc.edited = <<StoredRow(rc.metric).message_id>>
    /\ rc.stored = StoredRow(rc.metric)

(* C10: when the edit or the send fails with any other transport error,    *)
(* the call sends no (further) message and leaves the record tables as     *)
(* they were when it read them (after the clearing, in a refresh           *)
(* command); after a failed send on week roll-over the stale record is     *)
(* still there, and the next call for that week sends again and edits      *)
(* nothing.                                                                *)
IsOtherError(x) ==
    x \notin {"none", "ok", "message to edit not found", "message_id_invalid",
              "message is not modified"}

FoundBy(log, m, tbl) ==
    IF log.cleared /\ log.metric = m
    THEN {r \in tbl : r.chat_id # REQUIRED_TG_GROUP_ID}
    ELSE tbl

C10_OtherErrorsDropped ==
    [][/\ (IsOtherError(rc'.edit) \/ IsOtherError(rc'.send))
          => /\ rc'.sent = <<>>
             /\ nextId' = nextId
             /\ live' = live
             /\ pinnedA' = FoundBy(rc', "alliance", pinnedA)
             /\ pinnedW' = FoundBy(rc', "club", pinnedW)
             /\ IsOtherError(rc'.edit) => rc'.send = "none"
       /\ (/\ IsOtherError(rc.send)
           /\ rc.stored # NoRow
           /\ rc.stored.week_start # rc.week_start
           /\ rc'.metric = rc.metric
           /\ ~rc'.cleared
           /\ rc'.week_start = rc.week_start)
          => /\ rc'.stored = rc.stored
             /\ rc'.edited = <<>>
             /\ rc'.send # "none"]_vars

C10_Witness ==
    /\ IsOtherError(rc.send)
    /\ rc.stored # NoRow
    /\ rc.stored.week_start # rc.week_start
    /\ StoredRow(rc.metric) = rc.stored

(* C11: when the send succeeds and the pin call that follows fails, the    *)
(* call still stores the record of the chat with the id of the message it  *)
(* sent and the week of the call, and it returns normally.                 *)
C11_PinFailureNonFatal ==
    \A m \in Metrics :
        (rc.metric = m /\ rc.send = "ok" /\ rc.pin # "ok")
        => /\ Len(rc.sent) = 1
           /\ RowsOfChat(m) = {[chat_id |-> REQUIRED_TG_GROUP_ID,
                                message_id |-> rc.sent[1],
                                week_start |-> rc.week_start]}

C11_Witness ==
    /\ rc.metric = "alliance"
    /\ rc.send = "ok"
    /\ rc.pin = OtherError
    /\ rc.stored = NoRow
    /\ StoredRow("alliance").message_id = rc.sent[1]
    /\ rc.sent[1] \in live

(* C12: in every state each record table holds at most one row of the     *)
(* chat, whatever reconcile calls, refresh commands, changes of week,      *)
(* deletions and delivery errors came before.                              *)
C12_OneRowPerChat ==
    \A m \in Metrics : Cardinality(RowsOfChat(m)) <= 1

C12_Witness ==
    /\ rc.metric = "alliance"
    /\ rc.stored # NoRow
    /\ rc.stored.week_start # rc.week_start
    /\ rc.send = "ok"
    /\ Cardinality(RowsOfChat("alliance")) = 1
    /\ Cardinality(live) = 2

(* C13: in every state each metric has exactly one record of the chat      *)
(* whose week_start is the week computed now.                              *)
CurrentWeek(m) ==
    IF m = "alliance" THEN get_alliance_week_start(today) ELSE get_week_start(today)

NonExpired(m) == {r \in RowsOfChat(m) : r.week_start = CurrentWeek(m)}

C13_ExactlyOneNonExpired ==
    \A m \in Metrics : Cardinality(NonExpired(m)) = 1

(* C13 as amended: each metric has at most one record of the chat whose    *)
(* week_start is the week computed now, and exactly one, holding the       *)
(* message of the call, right after a reconcile call for that week whose   *)
(* send or edit succeeded.                                                 *)
C13_AtMostOneNonExpired ==
    \A m \in Metrics :
        /\ Cardinality(NonExpired(m)) <= 1
        /\ (rc.metric = m /\ rc.week_start = CurrentWeek(m)
            /\ (rc.send = "ok" \/ rc.edit = "ok"))
           => \E r \in RowsOfChat(m) :
                 /\ NonExpired(m) = {r}
                 /\ r.message_id = IF rc.send = "ok" THEN rc.sent[1] ELSE rc.edited[1]

C13_Witness ==
    /\ rc.metric = "club"
    /\ rc.stored # NoRow
    /\ rc.stored.week_start # rc.week_start
    /\ rc.week_start = CurrentWeek("club")
    /\ rc.send = "ok"
    /\ Cardinality(NonExpired("club")) = 1

(* =================== properties of the monitor loop ==================== *)
(* C1: once a ledger entry (week_start, entity) exists, its baseline is    *)
(* the same in every later state.                                          *)
C1_BaselineFixed ==
    [][\A r \in ledger : \A q \in ledger' :
          (q.week_start = r.week_start /\ q.mangabuff_id = r.mangabuff_id)
          => q.contribution_baseline = r.contribution_baseline]_vars

C15_RolloverForcesUpsert ==
    [][(/\ cyc'.phase = "cycle" /\ cyc'.fetched /\ cyc'.contributions # <<>>
        /\ get_alliance_week_start(today) # last_week_start
        /\ ~cyc'.raised)
       => LET w == get_alliance_week_start(today)
          IN /\ cyc'.upserts # <<>>
             /\ cyc'.upserts[1] = TRUE
             /\ \A i \in DOMAIN cyc'.contributions :
                   EntriesOf(ledger', w, cyc'.contributions[i].mangabuff_id)
                     = {[week_start |-> w,
                         mangabuff_id |-> cyc'.contributions[i].mangabuff_id,
                         contribution_baseline |-> cyc'.contributions[i].contribution,
                         contribution_current |-> cyc'.contributions[i].contribution]}
             /\ rc'.metric = "alliance"
             /\ rc'.week_start = w
             /\ last_week_start' = w]_vars

C15_Witness ==
    /\ cyc.phase = "cycle"
    /\ cyc.upserts = <<TRUE, FALSE>>
    /\ rc.metric = "alliance"
    /\ rc.week_start = get_alliance_week_start(today)
    /\ rc.stored # NoRow
    /\ rc.stored.week_start # rc.week_start
    /\ \E r \in ledger :
          /\ r.week_start # rc.week_start
          /\ r.mangabuff_id = cyc.contributions[1].mangabuff_id
          /\ r.contribution_current = cyc.contributions[1].contribution

(* C16: the end-to-end scenario of one run of alliance_monitor_loop, for   *)
(* an entity e observed at a, then at b # a, then again at b:              *)
(* (1) the first snapshot, into an empty store, yields the row             *)
(*     (W1, e, baseline a, current a), no edit and one sent message;       *)
(* (2) the next snapshot in W1 yields baseline a, current b, exactly one   *)
(*     edit, of the stored message, and no send;                           *)
(* (3) the next snapshot, in another week W2, yields the new row           *)
(*     (W2, e, b, b), leaves the row of W1 as it was, edits nothing, sends *)
(*     a new message, and the record points to the new message for W2.     *)
LedgerRow(w, e, baseline, current) ==
    [week_start |-> w, mangabuff_id |-> e,
     contribution_baseline |-> baseline, contribution_current |-> current]

Snapshot(e, c) == <<[mangabuff_id |-> e, nick |-> "A", contribution |-> c]>>

PinnedRow(message_id, w) ==
    [chat_id |-> REQUIRED_TG_GROUP_ID, message_id |-> message_id, week_start |-> w]

C16_Scenario ==
    [][\A e \in {0} \cup UserIds, a, b \in Contributions :
         LET w == get_alliance_week_start(today)
             observes(c) == /\ cyc'.phase \in {"start", "cycle"}
                            /\ cyc'.contributions = Snapshot(e, c)
                            /\ ~cyc'.raised
         IN /\ (observes(a) /\ ledger = {} /\ pinnedA = {})
               => /\ ledger' = {LedgerRow(w, e, a, a)}
                  /\ rc'.metric = "alliance"
                  /\ rc'.edited = <<>>
                  /\ rc'.send # "none"
                  /\ rc'.send = "ok"
                        => /\ Len(rc'.sent) = 1
                           /\ pinnedA' = {PinnedRow(rc'.sent[1], w)}
            /\ (/\ observes(b) /\ a # b
                /\ running /\ is_initialized /\ last_week_start = w
                /\ last_club_hash = compute_alliance_hash(Snapshot(e, a))
                /\ ledger = {LedgerRow(w, e, a, a)}
                /\ \E m \in live : pinnedA = {PinnedRow(m, w)})
               => /\ ledger' = {LedgerRow(w, e, a, b)}
                  /\ rc'.metric = "alliance"
                  /\ \E m \in live : rc'.edited = <<m>> /\ pinnedA = {PinnedRow(m, w)}
                  /\ rc'.sent = <<>>
                  /\ rc'.send = "none"
                  /\ pinnedA' = pinnedA
            /\ \A w1 \in WeekStarts, m \in live :
                  (/\ observes(b) /\ w1 # w
                   /\ running /\ is_initialized /\ last_week_start = w1
                   /\ last_club_hash = compute_alliance_hash(Snapshot(e, b))
                   /\ ledger = {LedgerRow(w1, e, a, b)}
                   /\ pinnedA = {PinnedRow(m, w1)})
                  => /\ ledger' = {LedgerRow(w1, e, a, b), LedgerRow(w, e, b, b)}
                     /\ rc'.metric = "alliance"
                     /\ rc'.edited = <<>>
                     /\ rc'.edit = "none"
                     /\ rc'.send # "none"
                     /\ rc'.send = "ok"
                           => /\ Len(rc'.sent) = 1
                              /\ rc'.sent[1] # m
                              /\ m \in live'
                              /\ pinnedA' = {PinnedRow(rc'.sent[1], w)}]_vars

C16_Witness ==
    \E e \in UserIds, a, b \in Contributions :
        /\ a # b
        /\ cyc.phase = "cycle"
        /\ cyc.contributions = Snapshot(e, b)
        /\ ledger = {LedgerRow(0, e, a, b),
                     LedgerRow(get_alliance_week_start(today), e, b, b)}
        /\ get_alliance_week_start(today) # 0
        /\ rc.stored = PinnedRow(1, 0)
        /\ rc.edited = <<>>
        /\ rc.sent = <<2>>
        /\ nextId = 3
        /\ live = {1, 2}
        /\ pinnedA = {PinnedRow(2, get_alliance_week_start(today))}

(* C17: an exception raised by a fetch, parse, storage or notifier         *)
(* operation, in the start-up code or in an iteration, does not end the    *)
(* loop: after the step it ended, the task is in its while loop.           *)
C17_ExceptionsNeverEndLoop ==
    /\ (cyc.phase \in {"start", "cycle"} /\ cyc.raised) => running
    /\ (cyc.phase = "parse" /\ cyc.raised) => parsing

(* C18: an iteration that a storage error of the ledger write ends leaves  *)
(* the task in its loop and does not advance the remembered fingerprint:   *)
(* it stays, or is reset, and the fingerprint or the week of the snapshot  *)
(* still differs from the remembered one; the remembered fingerprint       *)
(* becomes that of a                                                       *)
(* snapshot only in a step that committed its ledger write and called the  *)
(* reconciler; and an iteration that fetches a snapshot whose fingerprint  *)
(* or week is not the remembered one attempts the ledger write, and calls  *)
(* the reconciler when the write commits.                                  *)
C18_StorageErrorRetried ==
    [][/\ (cyc'.phase = "cycle" /\ cyc'.raised)
          => /\ running'
             /\ last_club_hash' \in {last_club_hash, NoHash}
             /\ \/ last_club_hash' # compute_alliance_hash(cyc'.contributions)
                \/ last_week_start' # get_alliance_week_start(today)
       /\ (cyc'.phase = "parse" /\ cyc'.raised) => parsing'
       /\ (/\ cyc'.phase = "parse" /\ cyc'.raised /\ ~cyc'.saved
           /\ cyc'.fetched /\ cyc'.contributions # <<>>)
          => /\ last_weekly_hash' \in {last_weekly_hash, NoHash}
             /\ weekly' = weekly
             /\ \/ last_weekly_hash' # compute_stats_hash(cyc'.contributions)
                \/ last_weekly_hash = compute_stats_hash(cyc'.contributions)
       /\ (last_club_hash' # last_club_hash /\ last_club_hash' # NoHash)
          => /\ cyc'.upserts # <<>>
             /\ ~cyc'.raised
             /\ rc'.metric = "alliance"
       /\ (last_weekly_hash' # last_weekly_hash /\ last_weekly_hash' # NoHash)
          => /\ cyc'.saved
             /\ rc'.metric = "club"
       /\ (/\ cyc'.phase = "cycle" /\ cyc'.fetched /\ cyc'.contributions # <<>>
           /\ \/ compute_alliance_hash(cyc'.contributions) # last_club_hash
              \/ get_alliance_week_start(today) # last_week_start)
          => \/ cyc'.raised
             \/ cyc'.upserts # <<>> /\ rc'.metric = "alliance"
       /\ (/\ cyc'.phase = "parse" /\ cyc'.fetched /\ cyc'.contributions # <<>>
           /\ compute_stats_hash(cyc'.contributions) # last_weekly_hash)
          => \/ cyc'.raised /\ ~cyc'.saved
             \/ cyc'.saved /\ rc'.metric = "club"]_vars

C18_Witness ==
    /\ cyc.phase = "cycle"
    /\ cyc.raised
    /\ cyc.contributions # <<>>
    /\ cyc.upserts = <<>>
    /\ running
    /\ is_initialized
    /\ last_club_hash # NoHash
    /\ last_club_hash # compute_alliance_hash(cyc.contributions)
    /\ \E r \in ledger :
          /\ r.week_start = last_week_start
          /\ r.mangabuff_id = cyc.contributions[1].mangabuff_id
          /\ r.contribution_current # cyc.contributions[1].contribution

(* C19: when the delivery of the pinned message failed in a step of a loop *)
(* (its send or its edit ended in a transport error other than 'not        *)
(* modified'), the next iteration that fetches the same snapshot calls the *)
(* reconciler again; for parse_loop, whose next weekly fetch is several    *)
(* iterations later: the fingerprint of the snapshot is not remembered.    *)
DeliveryFailed(log) ==
    \/ IsOtherError(log.send)
    \/ IsOtherError(log.edit)

C19_FailedDeliveryRetried ==
    [][/\ (/\ cyc.phase \in {"start", "cycle"} /\ rc.metric = "alliance"
           /\ DeliveryFailed(rc)
           /\ cyc'.phase = "cycle" /\ cyc'.fetched
           /\ cyc'.contributions = cyc.contributions
           /\ ~cyc'.raised)
          => rc'.metric = "alliance"
       /\ (cyc'.phase = "parse" /\ rc'.metric = "club" /\ DeliveryFailed(rc'))
          => last_weekly_hash' # compute_stats_hash(cyc'.contributions)]_vars

(* C20: mark_failure is called in exactly the iterations of parse_loop in  *)
(* which the count of consecutive iterations with a failed page fetch      *)
(* reaches max_consecutive_failures, and consecutive_failures is 0 after   *)
(* such an iteration; an iteration with a successful fetch that no         *)
(* exception ends leaves consecutive_failures at 0 and calls nothing.      *)
C20_RotationSignalled ==
    [][cyc'.phase = "parse"
       => /\ cyc'.signalled
                <=> (/\ ~cyc'.data /\ ~cyc'.raised
                     /\ failed_fetches' = max_consecutive_failures)
          /\ (~cyc'.data /\ ~cyc'.raised /\ failed_fetches' = max_consecutive_failures)
                => consecutive_failures' = 0
          /\ (cyc'.data /\ ~cyc'.raised)
                => consecutive_failures' = 0 /\ ~cyc'.signalled]_vars

(* ======================= properties of the fetch ======================= *)
Gets(calls) == {i \in DOMAIN calls : calls[i][1] = "get"}

Sleeps(calls) == {i \in DOMAIN calls : calls[i][1] = "sleep"}

Answered(responses) == {i \in DOMAIN responses : responses[i].kind = "HTTP 200"}

(* C21: fetch_page makes at most MAX_RETRIES GET attempts and returns: the *)
(* body of the first attempt answered with HTTP 200, or None when every    *)
(* attempt failed (status, timeout, connection error, other exception).    *)
(* It sleeps RETRY_DELAY between two attempts and nowhere else: never      *)
(* before the first attempt and never after the last one.                  *)
C21_FetchBounded ==
    fetch.op = "fetch_page" =>
        LET calls == fetch.calls
            ok == Answered(fetch.responses)
        IN /\ Cardinality(Gets(calls)) <= MAX_RETRIES
           /\ \A i \in DOMAIN calls : calls[i][1] \in {"get", "sleep"}
           /\ IF ok = {}
              THEN /\ fetch.result = None
                   /\ Cardinality(Gets(calls)) = MAX_RETRIES
              ELSE LET k == CHOOSE i \in ok : \A j \in ok : i <= j
                   IN /\ fetch.result = [ok |-> TRUE, text |-> fetch.responses[k].text]
                      /\ Cardinality(Gets(calls)) = k
           /\ calls # <<>> /\ calls[1][1] = "get" /\ calls[Len(calls)][1] = "get"
           /\ \A i \in Sleeps(calls) : calls[i] = <<"sleep", RETRY_DELAY>>
           /\ \A i \in 1..(Len(calls) - 1) : calls[i][1] # calls[i + 1][1]

C21_Witness ==
    /\ fetch.op = "fetch_page"
    /\ fetch.responses[1].kind = "Timeout"
    /\ fetch.responses[2].kind = "HTTP 500"
    /\ fetch.responses[3].kind = "HTTP 200"
    /\ fetch.result.ok
    /\ Len(fetch.calls) = 5

(* ================== properties of the monitoring loops ================= *)
(* C22: an iteration whose fetch returned a page in which the parser found *)
(* no record writes no ledger row, makes no call for the pinned message,   *)
(* and leaves the remembered fingerprint and the remembered week as they   *)
(* were; for alliance_monitor_loop and for the weekly part of parse_loop.  *)
C22_EmptySnapshotIgnored ==
    [][(cyc'.phase \in {"cycle", "parse"} /\ cyc'.fetched
            /\ cyc'.contributions = <<>>)
       => /\ ledger' = ledger
          /\ weekly' = weekly
          /\ cyc'.upserts = <<>> /\ ~cyc'.saved
          /\ rc' = NoReconcile
          /\ UNCHANGED <<pinnedA, pinnedW, live, nextId>>
          /\ UNCHANGED <<last_club_hash, last_week_start>>
          /\ UNCHANGED <<last_weekly_hash, weekly_last_week_start>>]_vars

C22_Witness ==
    /\ cyc.phase = "cycle"
    /\ cyc.fetched
    /\ cyc.contributions = <<>>
    /\ ledger # {}
    /\ last_week_start # get_alliance_week_start(today)

(* C23: alliance_monitor_loop stops on cancellation only at its            *)
(* inter-cycle sleep: it is never stopped while a fetch, an upsert or the  *)
(* reconcile of an iteration is in progress, so never with the ledger      *)
(* written for a snapshot and the pinned message not reconciled.           *)
C23_CancelOnlyAtSleep ==
    at.cancelled => at.point = "sleep"

(* ==================== properties of the card tracker =================== *)
IsCardEffect(c) ==
    c \in {"archive_card", "insert_card", "notify_owners", "notify_group_new_card"}

CardEffects(log) == SelectSeq(log.calls, IsCardEffect)

ExpectedEffects(log) ==
    (IF log.current # NoCard THEN <<"archive_card">> ELSE <<>>)
        \o <<"insert_card", "notify_owners", "notify_group_new_card">>

IsPrefix(s, t) == Len(s) <= Len(t) /\ s = SubSeq(t, 1, Len(s))

CardIteration == parsing /\ parsing' /\ card_log'.op = "card"

Called(log, name, slug) ==
    \E i \in DOMAIN log.calls : log.calls[i] = <<name, slug>>

(* C25: whenever the slug alliance_monitor_loop tracks advances to a       *)
(* title, that title has been stored and its change notified in the same   *)
(* step, or (at start-up) it is the title the store already holds: the     *)
(* tracked slug never advances to a title neither stored nor notified.     *)
C25_SlugAdvancesWithNotice ==
    [][(running' /\ current_slug' # NoSlug
            /\ (current_slug' # current_slug \/ ~running))
       => \/ /\ Called(manga_log', "save_alliance_manga", current_slug')
             /\ Called(manga_log', "notify_alliance_manga_changed", current_slug')
          \/ /\ ~running
             /\ get_current_alliance_manga(manga_db) = current_slug']_vars

(* C26: the is_new_week = TRUE upsert (the overwrite of the baselines) of  *)
(* a week is executed exactly once, at the transition to that week; every  *)
(* other upsert for the week uses is_new_week = FALSE.  So no step of the  *)
(* loop makes two such upserts, and none makes one for a week the ledger   *)
(* already holds rows of.                                                  *)
NewWeekUpserts(log) == {i \in DOMAIN log.upserts : log.upserts[i]}

C26_BaselineRolledOnce ==
    [][cyc'.phase \in {"start", "cycle"}
       => /\ Cardinality(NewWeekUpserts(cyc')) <= 1
          /\ NewWeekUpserts(cyc') # {}
                => RowsOfWeek(ledger, get_alliance_week_start(today)) = {}]_vars

(* ===================== properties of the queries ======================= *)
QueriedTable(op) ==
    IF op \in {"get_alliance_week_rows", "get_alliance_available_weeks"}
    THEN ledger ELSE weekly

CurrentOf(r, op) ==
    IF op = "get_alliance_week_rows" THEN r.contribution_current ELSE r.contribution

(* C27: week_rows for week W (get_alliance_week_rows,                      *)
(* get_week_contributions_from_db) returns exactly the rows of the ledger  *)
(* whose week_start is W, each once, with the current contribution         *)
(* non-increasing along the list.                                          *)
C27_WeekRows ==
    answer.op \in {"get_alliance_week_rows", "get_week_contributions_from_db"} =>
        LET rows == answer.rows
        IN /\ {rows[i] : i \in DOMAIN rows}
                = {r \in QueriedTable(answer.op) : r.week_start = answer.week_start}
           /\ \A i, j \in DOMAIN rows : i # j => rows[i] # rows[j]
           /\ \A i, j \in DOMAIN rows :
                 i < j => CurrentOf(rows[i], answer.op) >= CurrentOf(rows[j], answer.op)

C27_Witness ==
    /\ answer.op = "get_alliance_week_rows"
    /\ Len(answer.rows) = 2
    /\ answer.rows[1].contribution_current > answer.rows[2].contribution_current
    /\ \E r \in ledger : r.week_start # answer.week_start

(* C28: available_weeks (get_alliance_available_weeks,                     *)
(* get_available_weeks) returns every week_start that has a ledger row     *)
(* exactly once, and nothing else, in strictly descending order.           *)
C28_AvailableWeeks ==
    answer.op \in {"get_alliance_available_weeks", "get_available_weeks"} =>
        LET weeks == answer.weeks
        IN /\ {weeks[i] : i \in DOMAIN weeks}
                = {w \in WeekStarts : \E r \in QueriedTable(answer.op) : r.week_start = w}
           /\ \A i, j \in DOMAIN weeks : i < j => weeks[i] > weeks[j]

C28_Witness ==
    /\ answer.op = "get_alliance_available_weeks"
    /\ Len(answer.weeks) = 2
    /\ Cardinality(ledger) > 2

(* ==================== properties of the fingerprint ==================== *)
PairsOf(contributions) ==
    [i \in DOMAIN contributions |->
        <<contributions[i].mangabuff_id, contributions[i].contribution>>]

(* C29: compute_alliance_hash and compute_stats_hash give two record lists *)
(* the same fingerprint exactly when the lists have the same ordered       *)
(* sequence of (mangabuff_id, contribution) pairs: equal sequences give    *)
(* equal fingerprints, and lists that differ in a pair give different ones.*)
C29_FingerprintOfPairs ==
    hashed.op # "none"
    => ((PairsOf(hashed.a) = PairsOf(hashed.b)) <=> (hashed.hash_a = hashed.hash_b))

C29_Witness ==
    /\ hashed.op = "compute_stats_hash"
    /\ Len(hashed.a) = 2 /\ Len(hashed.b) = 2
    /\ PairsOf(hashed.a) = << <<1, 21>>, <<12, 1>> >>
    /\ PairsOf(hashed.b) = << <<12, 1>>, <<1, 21>> >>
    /\ hashed.hash_a # hashed.hash_b

(* C30: two snapshots with the same ordered (mangabuff_id, contribution)   *)
(* pairs have the same fingerprint whatever their nicks, so an iteration   *)
(* of alliance_monitor_loop whose snapshot differs from the remembered one *)
(* (the one of the step before, whose fingerprint is the remembered one)   *)
(* only in nicks, in the remembered week, writes nothing to the ledger,    *)
(* the nick column included, and calls neither send, edit nor pin.         *)
C30_NameChangeIgnored ==
    [][(/\ cyc.phase \in {"start", "cycle"} /\ cyc.fetched
        /\ cyc.contributions # <<>>
        /\ last_club_hash = compute_alliance_hash(cyc.contributions)
        /\ cyc'.phase = "cycle" /\ cyc'.fetched
        /\ PairsOf(cyc'.contributions) = PairsOf(cyc.contributions)
        /\ cyc'.contributions # cyc.contributions
        /\ get_alliance_week_start(today) = last_week_start)
       => /\ compute_alliance_hash(cyc'.contributions)
               = compute_alliance_hash(cyc.contributions)
          /\ cyc'.upserts = <<>>
          /\ ~cyc'.raised
          /\ ledger' = ledger
          /\ nicks' = nicks
          /\ rc' = NoReconcile
          /\ <<pinnedA, live, nextId>>' = <<pinnedA, live, nextId>>]_vars

(* The skipped snapshot names the entity otherwise than the ledger does.   *)
C30_Witness ==
    /\ cyc.phase = "cycle" /\ cyc.fetched /\ Len(cyc.contributions) = 1
    /\ ~cyc.raised
    /\ cyc.upserts = <<>>
    /\ rc = NoReconcile
    /\ compute_alliance_hash(cyc.contributions) = last_club_hash
    /\ get_alliance_week_start(today) = last_week_start
    /\ \E r \in ledger, n \in nicks :
          /\ r.week_start = last_week_start /\ n.week_start = last_week_start
          /\ r.mangabuff_id = cyc.contributions[1].mangabuff_id
          /\ n.mangabuff_id = cyc.contributions[1].mangabuff_id
          /\ r.contribution_current = cyc.contributions[1].contribution
          /\ n.nick # cyc.contributions[1].nick

(* ===================== properties of the week clock ==================== *)
(* 2026-02-16 is a Monday. *)
KnownMonday == <<2026, 2, 16>>

IsMonday(date) == (toordinal(date) - toordinal(KnownMonday)) % 7 = 0

SameWindow(t1, t2) ==
    \E monday \in Dates :
        /\ IsMonday(monday)
        /\ toordinal(monday) <= toordinal(t1)
        /\ toordinal(t1) <= toordinal(monday) + 6
        /\ toordinal(monday) <= toordinal(t2)
        /\ toordinal(t2) <= toordinal(monday) + 6

(* C31: for every date t the week start returned for t is a Monday, is not *)
(* after t, and the week end returned for it is the sixth day after it and *)
(* is not before t; two dates of the same Monday-to-Sunday window get the  *)
(* same week start, also when the window spans two months or two years.    *)
C31_WeekWindow ==
    window.op # "none"
    => LET start == strptime(window.start1)
           end == strptime(window.end1)
       IN /\ IsMonday(start)
          /\ toordinal(start) <= toordinal(window.t1)
          /\ toordinal(window.t1) <= toordinal(end)
          /\ toordinal(end) = toordinal(start) + 6
          /\ SameWindow(window.t1, window.t2) => window.start1 = window.start2

C31_Witness ==
    /\ window.op = "weekly_stats"
    /\ window.t1 = <<2027, 1, 2>>
    /\ window.t2 = <<2026, 12, 29>>
    /\ window.start1 = "2026-12-28"
    /\ window.start2 = "2026-12-28"
    /\ window.end1 = "2027-01-03"

(* ===================== properties of the event loop ==================== *)
(* C32: while parse_loop or alliance_monitor_loop is in a page fetch, the  *)
(* fetch runs on a worker and the thread of the event loop is free, so the *)
(* other loop and the handlers of the bot can take steps.                  *)
C32_FetchesOffloaded ==
    (sched.parse \in ParseFetches \/ sched.alliance \in AllianceFetches)
    => /\ sched.thread = "idle"
       /\ ENABLED HandleUpdate

(* ================== properties of interleaved reconciles =============== *)
(* C33: when a refresh command and a reconcile of the loop for the same    *)
(* chat and metric have interleaved at their awaits and both have ended,   *)
(* the chat having had a record of the week with a message that exists     *)
(* when they were called, at most one message was sent by the two, and     *)
(* when one was sent the record of the chat holds the id of the message    *)
(* sent last.                                                              *)
C33_RefreshRaceSafe ==
    (/\ race.loop.pc = "done" /\ race.admin.pc = "done"
     /\ race.had # NoRow /\ race.had.week_start = race.week_start
     /\ race.had.message_id \in live)
    => /\ Len(race.sent) <= 1
       /\ race.sent # <<>>
          => LET stored == IF race.metric = "alliance"
                           THEN get_pinned_alliance_message(
                                    pinnedA, REQUIRED_TG_GROUP_ID)
                           ELSE get_pinned_message_info(
                                    pinnedW, REQUIRED_TG_GROUP_ID)
             IN stored.message_id = race.sent[Len(race.sent)]

(* =============== properties of a failed change of week ================= *)
(* C34: when the is_new_week = TRUE upsert of an iteration of              *)
(* alliance_monitor_loop that found the week changed fails, the remembered *)
(* week stays as it was; and the next iteration that gets a non-empty      *)
(* snapshot and that no storage error ends commits an is_new_week = TRUE   *)
(* upsert first, after which every entity of its snapshot has an entry of  *)
(* the new week.                                                           *)
C34_FailedRolloverRetried ==
    [][/\ (/\ cyc'.phase = "cycle" /\ cyc'.fetched /\ cyc'.contributions # <<>>
           /\ get_alliance_week_start(today) # last_week_start
           /\ cyc'.raised /\ cyc'.upserts = <<>>)
          => /\ last_week_start' = last_week_start
             /\ ledger' = ledger
       /\ (/\ cyc.phase = "cycle" /\ cyc.fetched /\ cyc.contributions # <<>>
           /\ cyc.raised /\ cyc.upserts = <<>>
           /\ get_alliance_week_start(today) # last_week_start
           /\ cyc'.phase = "cycle" /\ cyc'.fetched /\ cyc'.contributions # <<>>
           /\ ~cyc'.raised)
          => /\ cyc'.upserts # <<>>
             /\ cyc'.upserts[1] = TRUE
             /\ last_week_start' = get_alliance_week_start(today)
             /\ \A i \in DOMAIN cyc'.contributions :
                   EntriesOf(ledger', get_alliance_week_start(today),
                             cyc'.contributions[i].mangabuff_id) # {}]_vars

C34_Witness ==
    /\ running
    /\ cyc.phase = "cycle" /\ cyc.fetched /\ cyc.contributions # <<>>
    /\ cyc.raised /\ cyc.upserts = <<>>
    /\ get_alliance_week_start(today) # last_week_start
    /\ last_week_start # -1
    /\ \A i \in DOMAIN cyc.contributions :
          EntriesOf(ledger, get_alliance_week_start(today),
                    cyc.contributions[i].mangabuff_id) = {}

(* ================== properties of a failed ledger call ================= *)
(* C35: a call of upsert_alliance_contributions or of                      *)
(* save_weekly_contributions that raises before its commit, at any of its  *)
(* statements or at the commit, changes no row of the ledger.              *)
C35_BatchAllOrNothing ==
    [][txn'.op # "none"
       => /\ ledger' = ledger
          /\ nicks' = nicks
          /\ weekly' = weekly]_vars

C35_Witness ==
    /\ txn.op = "upsert_alliance_contributions"
    /\ Len(txn.contributions) = 2
    /\ txn.failed_at = 2
    /\ ledger # {}
    /\ txn.pending # ledger

(* ================== properties of the weekly schedule ================== *)
(* C36: an iteration of parse_loop that got the data of the boost page and *)
(* found the computed week different from the remembered one makes the     *)
(* weekly check (the AJAX fetch, whose call sets the counter back to 0) in *)
(* that same iteration.                                                    *)
C36_WeekChangeChecksAtOnce ==
    [][(/\ cyc'.phase = "parse" /\ cyc'.data
        /\ parsing
        /\ get_week_start(today) # weekly_last_week_start)
       => weekly_check_counter' = 0]_vars

(* =================== properties of absent entities ===================== *)
(* C37: an upsert for week W leaves as it was every row of week W whose    *)
(* mangabuff_id is not in the record list, its nick included, and every    *)
(* answer get_alliance_week_rows can give for W afterwards has that row.   *)
C37_AbsentEntityKept ==
    [][call'.op = "upsert"
       => \A r \in ledger :
             (/\ r.week_start = call'.week_start
              /\ r.mangabuff_id \notin IdsOf(call'.contributions))
             => /\ r \in ledger'
                /\ EntriesOf(ledger', r.week_start, r.mangabuff_id) = {r}
                /\ \A n \in nicks :
                      (n.week_start = r.week_start
                       /\ n.mangabuff_id = r.mangabuff_id) => n \in nicks'
                /\ \A rows \in get_alliance_week_rows(ledger', call'.week_start) :
                      \E i \in DOMAIN rows : rows[i] = r]_vars

C37_Witness ==
    /\ call.op = "upsert" /\ call.is_new_week
    /\ call.contributions # <<>>
    /\ \E r \in ledger :
          /\ r.week_start = call.week_start
          /\ r.mangabuff_id \in call.had
          /\ r.mangabuff_id \notin IdsOf(call.contributions)
          /\ r.contribution_baseline # r.contribution_current
          /\ \A rows \in get_alliance_week_rows(ledger, call.week_start) :
                Len(rows) = 2 /\ \E i \in DOMAIN rows : rows[i] = r

(* ==================== properties of the order of ties ================== *)
IdOf(r, op) ==
    LET table == IF op = "get_alliance_week_rows" THEN "alliance" ELSE "club"
    IN (CHOOSE x \in rowids : /\ x.table = table
                              /\ x.week_start = r.week_start
                              /\ x.mangabuff_id = r.mangabuff_id).id

(* C38: in the list week_rows returns (get_alliance_week_rows,             *)
(* get_week_contributions_from_db), of two rows with the same current      *)
(* contribution the one whose entry was inserted first comes first.        *)
C38_TiesInArrivalOrder ==
    answer.op \in {"get_alliance_week_rows", "get_week_contributions_from_db"} =>
        \A i, j \in DOMAIN answer.rows :
            (/\ i < j
             /\ CurrentOf(answer.rows[i], answer.op)
                    = CurrentOf(answer.rows[j], answer.op))
            => IdOf(answer.rows[i], answer.op) < IdOf(answer.rows[j], answer.op)

(* ====================== properties of the proxy manager ================ *)
(* C39: whatever calls of get_proxies, rotate, mark_failure, mark_success  *)
(* and clear_failed were made, the current proxy is not in the set of      *)
(* failed proxies, and get_proxies does not return a proxy that rotate     *)
(* discarded since the last clear_failed.                                  *)
C39_CurrentNeverFailed ==
    /\ pm.self.current_proxy \notin pm.self.failed_proxies
    /\ pm.op = "get_proxies" =>
           \A p \in pm.discarded : pm.returned # format_proxy(p)

(* get_proxies searched and returned a proxy while another proxy, which    *)
(* the source had handed out again, stood discarded by rotate.             *)
C39_Witness ==
    /\ pm.op = "get_proxies"
    /\ pm.returned # NoProxies
    /\ pm.discarded # {}
    /\ pm.self.current_proxy \in Proxies
    /\ pm.discarded \subseteq pm.self.failed_proxies

====
